---- MODULE Spec2Model ----
(***************************************************************************)
(* Model of the delivery-tour solver (SolveurTSP over GrapheLivraison and  *)
(* Camion).                                                                *)
(*                                                                         *)
(* Fuel is a float in the program.  Here every fuel quantity is an exact   *)
(* integer number of 1/EchelleCarburant litres: the program's formula      *)
(*   (distance / 100) * (coef_base + coef_poids * poids)                   *)
(* with coef_poids = 0.005 = 1/200 equals                                  *)
(*   distance * (coef_base * 200 + poids) / 20000.                         *)
(* Float rounding is not modelled.                                         *)
(***************************************************************************)
EXTENDS Integers, Sequences, FiniteSets

\* ------------------------------------------------------------------ bounds
MaxSites == 2        \* instances have 0..MaxSites delivery stops
MaxDist == 2         \* adjusted distances between distinct sites: 1..MaxDist
MaxReservoir == 5    \* tank capacities: 1..MaxReservoir litres
MaxInterieur == 2    \* candidate tours of the Evaluator: 0..MaxInterieur sites
                     \* between two depots
MaxGenerations == 2  \* algorithme_genetique runs 0..MaxGenerations generations

\* ------------------------------------------------------- program constants
CoefBase == 20           \* coef_base, L/100 km
InvCoefPoids == 200      \* 1 / coef_poids (coef_poids = 0.005)
Plafond == 10            \* force_brute refuses n_sites > 10
Inf == -1                \* float('inf'), compared only through Lt / Le

EchelleCarburant == 100 * InvCoefPoids    \* fuel units per litre

\* The trucks and demands of the modelled instances.  With these weights a
\* leg of distance d driven with k stops still to deliver burns
\* d * (k + 1) / 2 litres, so that whole-litre tanks meet the cases of a leg
\* burning exactly the fuel left.
PoidsVide == 6000        \* poids_vide (kg)
Quantite == 10000        \* quantite_par_site (kg)
None == << >>            \* Python None for a tour (a returned tour has >= 2 sites)

VARIABLES graphe, camion, meilleure_tournee, meilleur_cout, retour, ag

vars == <<graphe, camion, meilleure_tournee, meilleur_cout, retour, ag>>

\* --------------------------------------------------------------- float inf
\* a < b on costs where Inf stands for +infinity
Lt(a, b) == a # Inf /\ (b = Inf \/ a < b)
\* a <= b on costs where Inf stands for +infinity
Le(a, b) == b = Inf \/ (a # Inf /\ a <= b)

\* ------------------------------------------------------------------ Camion
\* Camion.poids_actuel
poids_actuel(charge_restante) == camion.poids_vide + charge_restante

\* --------------------------------------------------------- GrapheLivraison
n_total == graphe.n_sites + 1

\* GrapheLivraison.distance_ajustee
distance_ajustee(site_i, site_j) == graphe.distances_ajustees[<<site_i, site_j>>]

\* GrapheLivraison.consommation_carburant, in 1/EchelleCarburant litres
consommation_carburant(distance, poids_camion) ==
    distance * (CoefBase * InvCoefPoids + poids_camion)

\* GrapheLivraison.peut_revenir_au_depot
peut_revenir_au_depot(site_actuel, carburant_restant, charge_restante) ==
    LET distance_retour == distance_ajustee(site_actuel, 0)
        poids == poids_actuel(charge_restante)
        conso_retour == consommation_carburant(distance_retour, poids)
    IN  carburant_restant >= conso_retour

\* ------------------------------------------------------------ list helpers
\* tournee[1:-1]
Interieur(tournee) ==
    IF Len(tournee) <= 2 THEN << >> ELSE SubSeq(tournee, 2, Len(tournee) - 1)

\* set(l)
Elements(l) == {l[k] : k \in 1..Len(l)}

\* -------------------------------------------- SolveurTSP.calculer_cout_tournee
\* The result of one Evaluator pass.  raison is the kind of the message:
\* "" | "depot" | "doublon" | "manquant" | "panne" | "retour";
\* exception is "" or the exception the call raised;
\* etats is the run-state after each leg that was driven.
Resultat(cout, valide, raison, exception, etats) ==
    [cout |-> cout, valide |-> valide, raison |-> raison,
     exception |-> exception, etats |-> etats]

\* panne_seche with >= for >: a leg that needs exactly the fuel left fails
panne_seche_stricte(consommation, carburant_restant) ==
    consommation >= carburant_restant

\* line 105: the leg needs more fuel than is left
panne_seche(consommation, carburant_restant) == consommation > carburant_restant

\* livrer without the test of line 123: a delivery at the depot too
livrer_partout(site_arrivee, charge_restante) ==
    charge_restante - graphe.quantite_par_site

\* lines 123-124: the delivery made on arrival at a stop
livrer(site_arrivee, charge_restante) ==
    IF site_arrivee # 0
    THEN charge_restante - graphe.quantite_par_site
    ELSE charge_restante

\* retour_impossible with the return checked at the weight before the
\* delivery
retour_impossible_avant_livraison(site_arrivee, carburant_restant, charge_restante) ==
    /\ site_arrivee # 0
    /\ ~peut_revenir_au_depot(site_arrivee, carburant_restant,
                              charge_restante + graphe.quantite_par_site)

\* lines 123-131: on arrival at a stop, after the delivery, the depot is out
\* of reach
retour_impossible(site_arrivee, carburant_restant, charge_restante) ==
    /\ site_arrivee # 0
    /\ ~peut_revenir_au_depot(site_arrivee, carburant_restant, charge_restante)

\* the simulation loop, from leg i (1-based) on
RECURSIVE Troncons(_, _, _, _, _, _)
Troncons(tournee, i, carburant_restant, charge_restante, cout_total, etats) ==
    IF i > Len(tournee) - 1
    THEN Resultat(cout_total, TRUE, "", "", etats)
    ELSE
      LET site_depart == tournee[i]
          site_arrivee == tournee[i + 1]
          distance == distance_ajustee(site_depart, site_arrivee)
          poids == poids_actuel(charge_restante)
          consommation == consommation_carburant(distance, poids)
      IN
      IF panne_seche(consommation, carburant_restant)
      THEN Resultat(Inf, FALSE, "panne", "", etats)
      ELSE
        LET carburant_apres == carburant_restant - consommation
            cout_apres == cout_total + consommation
            charge_apres == livrer(site_arrivee, charge_restante)
            etat == [site |-> site_arrivee, consommation |-> consommation,
                     carburant |-> carburant_apres, charge |-> charge_apres]
        IN
        IF retour_impossible(site_arrivee, carburant_apres, charge_apres)
        THEN Resultat(Inf, FALSE, "retour", "", Append(etats, etat))
        ELSE Troncons(tournee, i + 1, carburant_apres, charge_apres, cout_apres,
                      Append(etats, etat))

calculer_cout_tournee(tournee) ==
    IF Len(tournee) = 0
    THEN Resultat(Inf, FALSE, "", "IndexError", << >>)
    ELSE IF tournee[1] # 0 \/ tournee[Len(tournee)] # 0
    THEN Resultat(Inf, FALSE, "depot", "", << >>)
    ELSE IF Cardinality(Elements(Interieur(tournee))) # Len(Interieur(tournee))
    THEN Resultat(Inf, FALSE, "doublon", "", << >>)
    ELSE IF Len(tournee) - 2 # graphe.n_sites
    THEN Resultat(Inf, FALSE, "manquant", "", << >>)
    ELSE Troncons(tournee, 1,
                  camion.capacite_reservoir,
                  graphe.n_sites * graphe.quantite_par_site,
                  0, << >>)

\* ------------------------------------------------------ SolveurTSP.force_brute
\* list(range(a, b))
Range(a, b) == [k \in 1..(b - a) |-> a + k - 1]

\* l without its k-th element
Sans(l, k) == SubSeq(l, 1, k - 1) \o SubSeq(l, k + 1, Len(l))

\* x put in front of every sequence of ps
Prefixer(x, ps) == [k \in 1..Len(ps) |-> <<x>> \o ps[k]]

\* itertools.permutations(l), as the sequence of its values in the order it
\* yields them: by position, the first position varying slowest
RECURSIVE permutations(_), permutations_depuis(_, _)
permutations_depuis(l, k) ==
    IF k > Len(l) THEN << >>
    ELSE Prefixer(l[k], permutations(Sans(l, k))) \o permutations_depuis(l, k + 1)

permutations(l) ==
    IF Len(l) = 0 THEN << << >> >> ELSE permutations_depuis(l, 1)

\* line 202: depot -> sites -> depot
tournee_complete(permutation) == <<0>> \o permutation \o <<0>>

\* ameliore with <= for <: among tours of equal cost the last one is kept
ameliore_ou_egale(r, cout_retenu) == r.valide /\ Le(r.cout, cout_retenu)

\* ameliore without the comparison of costs: every valid tour is kept
ameliore_toujours(r, cout_retenu) == r.valide

\* lines 207-209: the evaluated tour is valid and strictly cheaper than the
\* one kept so far
ameliore(r, cout_retenu) == r.valide /\ Lt(r.cout, cout_retenu)

\* BoucleForceBrute with the assignment of line 211 one level up: the tour
\* is kept for every valid permutation, the cost only for a cheaper one
RECURSIVE BoucleForceBruteDecalee(_, _, _, _)
BoucleForceBruteDecalee(perms, k, tournee_retenue, cout_retenu) ==
    IF k > Len(perms)
    THEN [tournee |-> tournee_retenue, cout |-> cout_retenu, compteur |-> k - 1]
    ELSE
      LET tournee == tournee_complete(perms[k])
          r == calculer_cout_tournee(tournee)
      IN  IF r.valide
          THEN BoucleForceBruteDecalee(perms, k + 1, tournee,
                 IF Lt(r.cout, cout_retenu) THEN r.cout ELSE cout_retenu)
          ELSE BoucleForceBruteDecalee(perms, k + 1, tournee_retenue, cout_retenu)

\* the enumeration loop of force_brute from the k-th permutation on
RECURSIVE BoucleForceBrute(_, _, _, _)
BoucleForceBrute(perms, k, tournee_retenue, cout_retenu) ==
    IF k > Len(perms)
    THEN [tournee |-> tournee_retenue, cout |-> cout_retenu, compteur |-> k - 1]
    ELSE
      LET tournee == tournee_complete(perms[k])
          r == calculer_cout_tournee(tournee)
      IN  IF ameliore(r, cout_retenu)
          THEN BoucleForceBrute(perms, k + 1, tournee, r.cout)
          ELSE BoucleForceBrute(perms, k + 1, tournee_retenue, cout_retenu)

\* force_brute past its size check
force_brute ==
    LET sites_a_visiter == Range(1, n_total)
    IN  BoucleForceBrute(permutations(sites_a_visiter), 1, None, Inf)

\* the size check of force_brute
refuse_force_brute == graphe.n_sites > Plafond

\* ---------------------------------------------- SolveurTSP.glouton_plus_proche
AucunSite == Inf         \* Python None for a site index

\* the elements of a set of sites in increasing order: the order in which
\* CPython iterates over a set of small non-negative integers
RECURSIVE Tries(_)
Tries(S) ==
    IF S = {} THEN << >>
    ELSE LET m == CHOOSE x \in S : \A y \in S : x <= y
         IN  <<m>> \o Tries(S \ {m})

\* accessible without the look-ahead: only the leg is checked
accessible_sans_retour(site_actuel, site, carburant, charge) ==
    LET distance == distance_ajustee(site_actuel, site)
        poids == poids_actuel(charge)
        conso_aller == consommation_carburant(distance, poids)
    IN  conso_aller <= carburant

\* a stop the walk may move to: the leg is affordable and the depot is
\* still within reach after the delivery
accessible(site_actuel, site, carburant, charge) ==
    LET distance == distance_ajustee(site_actuel, site)
        poids == poids_actuel(charge)
        conso_aller == consommation_carburant(distance, poids)
    IN  /\ conso_aller <= carburant
        /\ LET charge_apres == charge - graphe.quantite_par_site
               carburant_apres == carburant - conso_aller
           IN  peut_revenir_au_depot(site, carburant_apres, charge_apres)

\* ChercherSite keeping the candidate seen last among those at the same
\* distance (<= where line 293 has <)
RECURSIVE ChercherSiteDernier(_, _, _, _, _, _, _)
ChercherSiteDernier(sites, k, site_actuel, carburant, charge, meilleur_site, meilleure_distance) ==
    IF k > Len(sites)
    THEN [site |-> meilleur_site, distance |-> meilleure_distance]
    ELSE
      LET site == sites[k]
          distance == distance_ajustee(site_actuel, site)
      IN  IF accessible(site_actuel, site, carburant, charge)
             /\ Le(distance, meilleure_distance)
          THEN ChercherSiteDernier(sites, k + 1, site_actuel, carburant, charge,
                                   site, distance)
          ELSE ChercherSiteDernier(sites, k + 1, site_actuel, carburant, charge,
                                   meilleur_site, meilleure_distance)

\* the inner loop of glouton_plus_proche over sites (a sequence), from the
\* k-th on
RECURSIVE ChercherSite(_, _, _, _, _, _, _)
ChercherSite(sites, k, site_actuel, carburant, charge, meilleur_site, meilleure_distance) ==
    IF k > Len(sites)
    THEN [site |-> meilleur_site, distance |-> meilleure_distance]
    ELSE
      LET site == sites[k]
          distance == distance_ajustee(site_actuel, site)
      IN  IF accessible(site_actuel, site, carburant, charge)
             /\ Lt(distance, meilleure_distance)
          THEN ChercherSite(sites, k + 1, site_actuel, carburant, charge,
                            site, distance)
          ELSE ChercherSite(sites, k + 1, site_actuel, carburant, charge,
                            meilleur_site, meilleure_distance)

\* Marche leaving the loop (break) where line 302 returns: the walk goes
\* back to the depot with the stops it could reach
RECURSIVE MarcheInterrompue(_, _, _, _, _)
MarcheInterrompue(tournee, sites_restants, carburant, charge, pas) ==
    IF sites_restants = {}
    THEN [tournee |-> Append(tournee, 0), impasse |-> FALSE, pas |-> pas]
    ELSE
      LET site_actuel == tournee[Len(tournee)]
          m == ChercherSite(Tries(sites_restants), 1, site_actuel, carburant,
                            charge, AucunSite, Inf)
      IN
      IF m.site = AucunSite
      THEN [tournee |-> Append(tournee, 0), impasse |-> FALSE, pas |-> pas]
      ELSE
        LET poids == poids_actuel(charge)
            conso == consommation_carburant(m.distance, poids)
            carburant_apres == carburant - conso
            charge_apres == charge - graphe.quantite_par_site
            etat == [depart |-> site_actuel, site |-> m.site,
                     restants |-> sites_restants, consommation |-> conso,
                     carburant |-> carburant_apres, charge |-> charge_apres]
        IN  MarcheInterrompue(Append(tournee, m.site), sites_restants \ {m.site},
                   carburant_apres, charge_apres, Append(pas, etat))

\* the while loop of glouton_plus_proche; pas is the walk so far, one
\* entry for each move made
RECURSIVE Marche(_, _, _, _, _)
Marche(tournee, sites_restants, carburant, charge, pas) ==
    IF sites_restants = {}
    THEN [tournee |-> Append(tournee, 0), impasse |-> FALSE, pas |-> pas]
    ELSE
      LET site_actuel == tournee[Len(tournee)]
          m == ChercherSite(Tries(sites_restants), 1, site_actuel, carburant,
                            charge, AucunSite, Inf)
      IN
      IF m.site = AucunSite
      THEN [tournee |-> tournee, impasse |-> TRUE, pas |-> pas]
      ELSE
        LET poids == poids_actuel(charge)
            conso == consommation_carburant(m.distance, poids)
            carburant_apres == carburant - conso
            charge_apres == charge - graphe.quantite_par_site
            etat == [depart |-> site_actuel, site |-> m.site,
                     restants |-> sites_restants, consommation |-> conso,
                     carburant |-> carburant_apres, charge |-> charge_apres]
        IN  Marche(Append(tournee, m.site), sites_restants \ {m.site},
                   carburant_apres, charge_apres, Append(pas, etat))

\* the walk of glouton_plus_proche from the depot
marche_gloutonne ==
    Marche(<<0>>, Elements(Range(1, n_total)), camion.capacite_reservoir,
           graphe.n_sites * graphe.quantite_par_site, << >>)

\* --------------------------------------------------------------- instances
Sites(n) == 0..n

\* symmetric matrices with a zero diagonal over the sites 0..n
Matrices(n) ==
    LET paires == {p \in Sites(n) \X Sites(n) : p[1] < p[2]}
    IN  { [p \in Sites(n) \X Sites(n) |->
             IF p[1] = p[2] THEN 0
             ELSE IF p[1] < p[2] THEN f[p] ELSE f[<<p[2], p[1]>>]] :
          f \in [paires -> 1..MaxDist] }

\* the sequences over S of length 0..k
RECURSIVE SeqsDe(_, _)
SeqsDe(S, k) ==
    IF k = 0 THEN {<< >>}
    ELSE LET plus_courtes == SeqsDe(S, k - 1)
         IN  plus_courtes \cup
             {Append(s, x) : s \in {t \in plus_courtes : Len(t) = k - 1}, x \in S}

Min(a, b) == IF a <= b THEN a ELSE b

\* candidate tours for the Evaluator: the lists of at most two sites, and
\* the lists [0] + x + [0] for every list x of at most MaxInterieur sites
Tournees ==
    LET S == Sites(Min(graphe.n_sites, MaxSites))
    IN  SeqsDe(S, 2) \cup {<<0>> \o x \o <<0>> : x \in SeqsDe(S, MaxInterieur)}

\* what a call returned: the call, its argument, the returned tour and cost
\* (and for the Evaluator valide, raison), the exception raised if any, the
\* Evaluator's run-states, the greedy walk, the permutations evaluated
Retour(appel, arg, tournee, cout, valide, raison, exception, etats, pas, compteur) ==
    [appel |-> appel, arg |-> arg, tournee |-> tournee, cout |-> cout,
     valide |-> valide, raison |-> raison, exception |-> exception,
     etats |-> etats, pas |-> pas, compteur |-> compteur]

RetourInit == Retour("", << >>, None, Inf, FALSE, "", "", << >>, << >>, 0)

\* instances too large for force_brute: Plafond + 1 stops, all at the same
\* distance of each other
GrandesMatrices(n) ==
    { [p \in Sites(n) \X Sites(n) |-> IF p[1] = p[2] THEN 0 ELSE d] :
      d \in 1..MaxDist }

\* ------------------------------------------------- algorithme_genetique
Max(a, b) == IF a >= b THEN a ELSE b

\* sites = list(range(1, n_total))
sites == Range(1, n_total)

\* the orders random.shuffle can leave the list s in
Melanges(s) ==
    {t \in [1..Len(s) -> Elements(s)] :
       \A i, j \in 1..Len(s) : i # j => t[i] # t[j]}

\* s with the items at positions i and j (from 1) exchanged
Echanger(s, i, j) ==
    [k \in 1..Len(s) |-> IF k = i THEN s[j] ELSE IF k = j THEN s[i] ELSE s[k]]

\* s after s[a:b] = reversed(s[a:b]), a and b counted from 0 as in the source
Inverser(s, a, b) ==
    [k \in 1..Len(s) |-> IF a < k /\ k <= b THEN s[a + 1 + b - k] ELSE s[k]]

\* list.sort(key = distance from the depot): stable, increasing
trier_par_distance(s) ==
    LET cle(i) == distance_ajustee(0, s[i])
        rang(i) == 1 + Cardinality({j \in 1..Len(s) :
                         cle(j) < cle(i) \/ (cle(j) = cle(i) /\ j < i)})
    IN  [r \in 1..Len(s) |-> s[CHOOSE i \in 1..Len(s) : rang(i) = r]]

\* the individuals creer_individu_aleatoire can return
creer_individu_aleatoire == {<<0>> \o p \o <<0>> : p \in Melanges(sites)}

\* the individuals creer_individu_glouton_varie can return
creer_individu_glouton_varie ==
    LET w == marche_gloutonne
    IN  IF w.impasse THEN creer_individu_aleatoire
        ELSE LET sites_visite == Interieur(w.tournee)
             IN  {w.tournee} \cup
                 {<<0>> \o Echanger(sites_visite, c[1], c[2]) \o <<0>> :
                    c \in {d \in (1..Len(sites_visite)) \X (1..Len(sites_visite)) :
                             d[1] # d[2]}}

\* the individuals creer_individu_plus_proche_first can return
creer_individu_plus_proche_first ==
    LET tri == trier_par_distance(sites)
        nb_proches == Max(1, (Len(tri) * 6) \div 10)
        sites_proches == SubSeq(tri, 1, Min(nb_proches, Len(tri)))
        sites_lointains == SubSeq(tri, nb_proches + 1, Len(tri))
    IN  {<<0>> \o a \o b \o <<0>> :
           a \in Melanges(sites_proches), b \in Melanges(sites_lointains)}

\* reparer_individu returning the re-ordered tour without testing it
reparer_sans_verifier(tournee) ==
    IF calculer_cout_tournee(tournee).valide THEN tournee
    ELSE <<0>> \o trier_par_distance(Interieur(tournee)) \o <<0>>

\* reparer_individu(tournee)
reparer_individu(tournee) ==
    IF calculer_cout_tournee(tournee).valide THEN tournee
    ELSE LET tournee_reparee ==
               <<0>> \o trier_par_distance(Interieur(tournee)) \o <<0>>
         IN  IF calculer_cout_tournee(tournee_reparee).valide
             THEN tournee_reparee ELSE tournee

\* a fitness is 0.0 or 1000.0 / diviseur
FitnessNul == [nul |-> TRUE, diviseur |-> 1]
Fitness(cout) == [nul |-> FALSE, diviseur |-> cout]

\* f > g on fitness values
fitness_superieur(f, g) == ~f.nul /\ (g.nul \/ f.diviseur < g.diviseur)

\* evaluer_fitness(tournee) as an entry of population_evaluee; the
\* division raises when a valid tour costs 0
evaluer_fitness(tournee) ==
    LET r == calculer_cout_tournee(tournee)
    IN  IF ~r.valide
        THEN [individu |-> tournee, fitness |-> FitnessNul, cout |-> r.cout,
              valide |-> FALSE, exception |-> ""]
        ELSE IF r.cout = 0
        THEN [individu |-> tournee, fitness |-> FitnessNul, cout |-> r.cout,
              valide |-> TRUE, exception |-> "ZeroDivisionError"]
        ELSE [individu |-> tournee, fitness |-> Fitness(r.cout), cout |-> r.cout,
              valide |-> TRUE, exception |-> ""]

\* the sort without reverse = True: the lowest fitness first
trier_par_fitness_croissant(evaluee) ==
    LET cle(i) == evaluee[i].fitness
        rang(i) == 1 + Cardinality({j \in 1..Len(evaluee) :
                         fitness_superieur(cle(i), cle(j))
                           \/ (cle(j) = cle(i) /\ j < i)})
    IN  [r \in 1..Len(evaluee) |->
           evaluee[CHOOSE i \in 1..Len(evaluee) : rang(i) = r]]

\* population_evaluee.sort(key = fitness, reverse = True): stable, the
\* highest fitness first
trier_par_fitness(evaluee) ==
    LET cle(i) == evaluee[i].fitness
        rang(i) == 1 + Cardinality({j \in 1..Len(evaluee) :
                         fitness_superieur(cle(j), cle(i))
                           \/ (cle(j) = cle(i) /\ j < i)})
    IN  [r \in 1..Len(evaluee) |->
           evaluee[CHOOSE i \in 1..Len(evaluee) : rang(i) = r]]

\* the evaluated and sorted population of lines 675-681
evaluer_population(population) ==
    trier_par_fitness([i \in 1..Len(population) |-> evaluer_fitness(population[i])])

\* the first sampled entry wins whatever its fitness
gagnant_premier(tournoi) == tournoi[1]

\* max(tournoi, key = fitness): the first entry of highest fitness
gagnant(tournoi) ==
    tournoi[CHOOSE i \in 1..Len(tournoi) :
              /\ \A j \in 1..Len(tournoi) :
                   ~fitness_superieur(tournoi[j].fitness, tournoi[i].fitness)
              /\ \A j \in 1..(i - 1) : tournoi[j].fitness # tournoi[i].fitness]

TailleTournoi == 3

\* the draws of random.sample(population_evaluee, taille_tournoi):
\* TailleTournoi distinct positions in any order
tirages(population_evaluee) ==
    LET positions == 1..Len(population_evaluee)
    IN  {t \in positions \X positions \X positions :
           t[1] # t[2] /\ t[1] # t[3] /\ t[2] # t[3]}

\* the sample drawn at the positions t
tournoi_tire(population_evaluee, t) ==
    <<population_evaluee[t[1]], population_evaluee[t[2]], population_evaluee[t[3]]>>

\* the tours selectionner_parents can return over its draws
selectionner_parents(population_evaluee) ==
    {gagnant(tournoi_tire(population_evaluee, t)).individu :
       t \in tirages(population_evaluee)}

\* random.sample raises when the population is smaller than the tournament
selection_leve(population_evaluee) == Len(population_evaluee) < TailleTournoi

\* an empty slot of the child under construction ([None] * len(p1))
Vide == -1

\* the while loop of lines 604-607: the first empty slot from pos on,
\* wrapping around; pos counts from 0
RECURSIVE place_libre(_, _)
place_libre(enfant, pos) ==
    IF enfant[pos + 1] # Vide
    THEN place_libre(enfant, IF pos + 1 >= Len(enfant) THEN 0 ELSE pos + 1)
    ELSE pos

\* the for loop of lines 600-608 from the k-th site of p2 on
RECURSIVE completer(_, _, _, _)
completer(enfant, p2, k, pos) ==
    IF k > Len(p2) THEN enfant
    ELSE IF p2[k] \in Elements(enfant) THEN completer(enfant, p2, k + 1, pos)
    ELSE LET libre == place_libre(enfant, IF pos >= Len(enfant) THEN 0 ELSE pos)
         IN  completer([enfant EXCEPT ![libre + 1] = p2[k]], p2, k + 1, libre)

\* croiser(parent1, parent2) for the drawn slice [debut, fin), from 0
croiser(parent1, parent2, debut, fin) ==
    LET p1 == Interieur(parent1)
        p2 == Interieur(parent2)
        enfant == [k \in 1..Len(p1) |->
                     IF debut < k /\ k <= fin THEN p1[k] ELSE Vide]
    IN  <<0>> \o completer(enfant, p2, 1, fin) \o <<0>>

\* random.randint(0, len(p1) - 2) raises on an empty range
croiser_leve(parent1) == Len(Interieur(parent1)) - 2 < 0

\* the children croiser can return over its random draws
croisements(parent1, parent2) ==
    LET n == Len(Interieur(parent1))
    IN  UNION {{croiser(parent1, parent2, debut, fin) : fin \in (debut + 1)..n} :
               debut \in 0..(n - 2)}

\* muter: exchange of two positions (lines 622-624)
mutations_echange(tournee) ==
    {Echanger(tournee, c[1] + 1, c[2] + 1) :
       c \in {d \in (1..(Len(tournee) - 2)) \X (1..(Len(tournee) - 2)) :
                d[1] # d[2]}}

\* muter: reversal of a segment (lines 626-629)
mutations_inversion(tournee) ==
    UNION {{Inverser(tournee, debut, fin) : fin \in (debut + 1)..(Len(tournee) - 1)} :
           debut \in 1..(Len(tournee) - 3)}

\* s without its item at index i, from 0
Retirer(s, i) == SubSeq(s, 1, i) \o SubSeq(s, i + 2, Len(s))

\* s with x inserted at index i, from 0
Inserer(s, i, x) == SubSeq(s, 1, i) \o <<x>> \o SubSeq(s, i + 1, Len(s))

\* mutations_deplacement with the new position drawn up to the length of
\* the list before the removal: the site can land after the final depot
mutations_deplacement_debordant(tournee) ==
    IF Len(tournee) > 3
    THEN {Inserer(Retirer(tournee, site_idx), nouvelle_pos, tournee[site_idx + 1]) :
            site_idx \in 1..(Len(tournee) - 2),
            nouvelle_pos \in 1..(Len(tournee) - 1)}
    ELSE {tournee}

\* muter: one site taken out and put back elsewhere (lines 631-637)
mutations_deplacement(tournee) ==
    IF Len(tournee) > 3
    THEN {Inserer(Retirer(tournee, site_idx), nouvelle_pos, tournee[site_idx + 1]) :
            site_idx \in 1..(Len(tournee) - 2),
            nouvelle_pos \in 1..(Len(tournee) - 2)}
    ELSE {tournee}

\* the tours muter can return at the mutation rate taux_mutation (percent):
\* random.random() is in [0, 1), so rate 0 never mutates and rate 1 always
muter(tournee, taux_mutation) ==
    (IF taux_mutation < 100 THEN {tournee} ELSE {}) \cup
    (IF taux_mutation > 0
     THEN mutations_echange(tournee) \cup mutations_inversion(tournee)
            \cup mutations_deplacement(tournee)
     ELSE {})

\* random.sample (line 623) and random.randint (line 627) raise on a tour
\* with fewer than two stops
muter_leve(tournee, taux_mutation) == taux_mutation > 0 /\ Len(tournee) < 4

\* deux_opt leaving the loops at the first improving reversal
RECURSIVE deux_opt_premiere_amelioration(_, _, _, _, _)
deux_opt_premiere_amelioration(tournee, i, j, meilleure, cout_actuel) ==
    IF i > Len(tournee) - 3 THEN meilleure
    ELSE IF j > Len(tournee) - 2
    THEN deux_opt_premiere_amelioration(tournee, i + 1, i + 2, meilleure, cout_actuel)
    ELSE LET nouvelle_tournee == Inverser(tournee, i, j + 1)
             r == calculer_cout_tournee(nouvelle_tournee)
         IN  IF r.valide /\ r.cout < cout_actuel
             THEN nouvelle_tournee
             ELSE deux_opt_premiere_amelioration(tournee, i, j + 1, meilleure, cout_actuel)

\* the two loops of lines 652-662 from the pair (i, j) on: every candidate
\* is the input tour with tournee[i:j+1] reversed
RECURSIVE deux_opt(_, _, _, _, _)
deux_opt(tournee, i, j, meilleure, cout_actuel) ==
    IF i > Len(tournee) - 3 THEN meilleure
    ELSE IF j > Len(tournee) - 2
    THEN deux_opt(tournee, i + 1, i + 2, meilleure, cout_actuel)
    ELSE LET nouvelle_tournee == Inverser(tournee, i, j + 1)
             r == calculer_cout_tournee(nouvelle_tournee)
         IN  IF r.valide /\ r.cout < cout_actuel
             THEN deux_opt(tournee, i, j + 1, nouvelle_tournee, r.cout)
             ELSE deux_opt(tournee, i, j + 1, meilleure, cout_actuel)

\* amelioration_locale(tournee)
amelioration_locale(tournee) ==
    LET r == calculer_cout_tournee(tournee)
    IN  IF ~r.valide THEN tournee
        ELSE deux_opt(tournee, 1, 2, tournee, r.cout)

\* the entry standing for "no individual yet"
AucunIndividu ==
    [individu |-> None, fitness |-> FitnessNul, cout |-> Inf, valide |-> FALSE,
     exception |-> ""]

\* the locals of a run of algorithme_genetique; pc is the position in it
AGRepos ==
    [pc |-> "repos", taille_population |-> 0, nb_generations |-> 0,
     taux_mutation |-> 0, nb_elite |-> 0, population |-> << >>,
     nouvelle_population |-> << >>, generation |-> 0,
     meilleur_generation |-> AucunIndividu, meilleur_cout_global |-> Inf,
     meilleure_tournee_globale |-> None, historique_meilleurs |-> << >>]

\* tank sizes in litres: the large instances get a truck whose tank is
\* scaled with them, so that some of them can be served
Reservoirs(n) ==
    IF n <= MaxSites THEN 1..MaxReservoir
    ELSE {r * Plafond : r \in 1..MaxReservoir}

Init ==
    /\ \E n \in (0..MaxSites) \cup {Plafond + 1} :
         \E m \in IF n <= MaxSites THEN Matrices(n) ELSE GrandesMatrices(n) :
           /\ graphe = [n_sites |-> n, quantite_par_site |-> Quantite,
                        distances_ajustees |-> m]
           /\ \E r \in Reservoirs(n) :
                camion = [poids_vide |-> PoidsVide,
                          charge_max |-> n * Quantite,
                          capacite_reservoir |-> r * EchelleCarburant]
    /\ meilleure_tournee = None
    /\ meilleur_cout = Inf
    /\ retour = RetourInit
    /\ ag = AGRepos

\* an Evaluator that keeps the best valid tour it has seen in the solver
EvaluerMemorise ==
    /\ retour.appel = ""
    /\ \E tournee \in Tournees :
         LET r == calculer_cout_tournee(tournee)
         IN  /\ retour' = Retour("calculer_cout_tournee", tournee, None, r.cout,
                                 r.valide, r.raison, r.exception, r.etats, << >>, 0)
             /\ IF r.valide /\ Lt(r.cout, meilleur_cout)
                THEN meilleure_tournee' = tournee /\ meilleur_cout' = r.cout
                ELSE UNCHANGED <<meilleure_tournee, meilleur_cout>>
    /\ UNCHANGED <<graphe, camion, ag>>

\* a call of calculer_cout_tournee(tournee)
Evaluer ==
    /\ retour.appel = ""
    /\ \E tournee \in Tournees :
         LET r == calculer_cout_tournee(tournee)
         IN  retour' = Retour("calculer_cout_tournee", tournee, None, r.cout,
                              r.valide, r.raison, r.exception, r.etats, << >>, 0)
    /\ UNCHANGED <<graphe, camion, meilleure_tournee, meilleur_cout, ag>>

\* ForceBrute with the size check after the stored result is reset
ForceBruteTardif ==
    /\ retour.appel = ""
    /\ IF refuse_force_brute
       THEN /\ retour' = Retour("force_brute", << >>, None, Inf, FALSE, "",
                                "ValueError", << >>, << >>, 0)
            /\ meilleure_tournee' = None
            /\ meilleur_cout' = Inf
       ELSE LET r == force_brute
            IN  /\ meilleure_tournee' = r.tournee
                /\ meilleur_cout' = r.cout
                /\ retour' = Retour("force_brute", << >>, r.tournee, r.cout,
                                    FALSE, "", "", << >>, << >>, r.compteur)
    /\ UNCHANGED <<graphe, camion, ag>>

\* a call of force_brute()
ForceBrute ==
    /\ retour.appel = ""
    /\ IF refuse_force_brute
       THEN /\ retour' = Retour("force_brute", << >>, None, Inf, FALSE, "",
                                "ValueError", << >>, << >>, 0)
            /\ UNCHANGED <<meilleure_tournee, meilleur_cout>>
       ELSE LET r == force_brute
            IN  /\ meilleure_tournee' = r.tournee
                /\ meilleur_cout' = r.cout
                /\ retour' = Retour("force_brute", << >>, r.tournee, r.cout,
                                    FALSE, "", "", << >>, << >>, r.compteur)
    /\ UNCHANGED <<graphe, camion, ag>>

\* a call of glouton_plus_proche()
Glouton ==
    /\ retour.appel = ""
    /\ LET w == marche_gloutonne
       IN  IF w.impasse
           THEN /\ retour' = Retour("glouton_plus_proche", << >>, None, Inf,
                                    FALSE, "", "", << >>, w.pas, 0)
                /\ UNCHANGED <<meilleure_tournee, meilleur_cout>>
           ELSE LET r == calculer_cout_tournee(w.tournee)
                IN  /\ meilleure_tournee' = w.tournee
                    /\ meilleur_cout' = r.cout
                    /\ retour' = Retour("glouton_plus_proche", << >>, w.tournee,
                                        r.cout, r.valide, r.raison, r.exception,
                                        r.etats, w.pas, 0)
    /\ UNCHANGED <<graphe, camion, ag>>

\* a call of comparer_methodes(): the greedy walk, whose tour is printed
\* stop by stop, then up to Plafond stops force_brute, whose tour is
\* printed the same way, and the gap in percent of the exact cost when the
\* two costs differ; it returns nothing
Comparer ==
    /\ retour.appel = ""
    /\ LET w == marche_gloutonne
           g == calculer_cout_tournee(w.tournee)
           fb == force_brute
           leve(exception) == Retour("comparer_methodes", << >>, None, Inf,
                                     FALSE, "", exception, << >>, w.pas, 0)
       IN  IF w.impasse
           THEN /\ retour' = leve("TypeError")
                /\ UNCHANGED <<meilleure_tournee, meilleur_cout>>
           ELSE IF graphe.n_sites <= Plafond
           THEN /\ meilleure_tournee' = fb.tournee
                /\ meilleur_cout' = fb.cout
                /\ retour' = IF fb.tournee = None THEN leve("TypeError")
                             ELSE IF g.cout # fb.cout /\ fb.cout = 0
                             THEN leve("ZeroDivisionError")
                             ELSE leve("")
           ELSE /\ meilleure_tournee' = w.tournee
                /\ meilleur_cout' = g.cout
                /\ retour' = leve("")
    /\ UNCHANGED <<graphe, camion, ag>>

\* the caller takes the returned value; the solver is ready for the next call
Reprendre ==
    /\ retour.appel # ""
    /\ retour' = RetourInit
    /\ UNCHANGED <<graphe, camion, meilleure_tournee, meilleur_cout, ag>>

Next == Evaluer \/ ForceBrute \/ Glouton \/ Comparer \/ Reprendre

Spec == Init /\ [][Next]_vars

\* ------------------------------------------------ algorithme_genetique run
TaillesPopulation == {2, 3}
TauxMutation == {0, 10, 100}       \* percent
TauxElitisme == {0, 20, 50, 100}   \* percent

\* a fresh solver on an instance, about to run algorithme_genetique
InitAG ==
    /\ \E n \in 0..MaxSites :
         \E m \in Matrices(n) :
           /\ graphe = [n_sites |-> n, quantite_par_site |-> Quantite,
                        distances_ajustees |-> m]
           /\ \E r \in Reservoirs(n) :
                camion = [poids_vide |-> PoidsVide,
                          charge_max |-> n * Quantite,
                          capacite_reservoir |-> r * EchelleCarburant]
    /\ meilleure_tournee = None
    /\ meilleur_cout = Inf
    /\ retour = RetourInit
    /\ ag = AGRepos

\* the run ends on an exception raised inside algorithme_genetique
AGLever(exception) ==
    /\ retour' = Retour("algorithme_genetique", << >>, None, Inf, FALSE, "",
                        exception, << >>, << >>, 0)
    /\ ag' = [ag EXCEPT !.pc = "fini"]

\* the greedy tour is left out of the initial population
population_sans_glouton(w) == << >>

\* lines 516-519: the tour of glouton_plus_proche, when there is one, is
\* the first individual of the initial population
population_initiale(w) == IF w.impasse THEN << >> ELSE <<w.tournee>>

\* the call begins: the arguments are bound and the greedy tour, when
\* there is one, is the first individual (lines 514-524);
\* glouton_plus_proche stores its result in the solver
AGAppeler ==
    /\ ag.pc = "repos"
    /\ retour.appel = ""
    /\ \E taille_population \in TaillesPopulation,
          nb_generations \in 0..MaxGenerations,
          taux_mutation \in TauxMutation,
          taux_elitisme \in TauxElitisme :
         LET w == marche_gloutonne
             population == population_initiale(w)
         IN  /\ ag' = [ag EXCEPT
                         !.pc = IF Len(population) < taille_population
                                THEN "semer" ELSE "evaluer",
                         !.taille_population = taille_population,
                         !.nb_generations = nb_generations,
                         !.taux_mutation = taux_mutation,
                         !.nb_elite = (taille_population * taux_elitisme) \div 100,
                         !.population = population]
             /\ IF w.impasse
                THEN UNCHANGED <<meilleure_tournee, meilleur_cout>>
                ELSE /\ meilleure_tournee' = w.tournee
                     /\ meilleur_cout' = calculer_cout_tournee(w.tournee).cout
    /\ UNCHANGED <<graphe, camion, retour>>

\* one iteration of the seeding loop (lines 527-539); a greedy variation
\* calls glouton_plus_proche, which stores the result AGAppeler stored
AGSemer ==
    /\ ag.pc = "semer"
    /\ \E individu \in creer_individu_glouton_varie
                         \cup creer_individu_plus_proche_first
                         \cup creer_individu_aleatoire :
         LET population == Append(ag.population, reparer_individu(individu))
         IN  ag' = [ag EXCEPT
                      !.population = population,
                      !.pc = IF Len(population) < ag.taille_population
                             THEN "semer" ELSE "evaluer"]
    /\ UNCHANGED <<graphe, camion, meilleure_tournee, meilleur_cout, retour>>

\* the individuals at the end of the sorted population are carried over
garder_derniers(population_evaluee, nb_elite) ==
    [i \in 1..nb_elite |->
       population_evaluee[Len(population_evaluee) - nb_elite + i].individu]

\* lines 701-702: the first nb_elite individuals of the sorted population
\* open the new population
garder_elites(population_evaluee, nb_elite) ==
    [i \in 1..nb_elite |-> population_evaluee[i].individu]

\* the global best is replaced whatever its cost
retenir_meilleur_sans_comparer(meilleur_generation, meilleur_cout_global) ==
    meilleur_generation.valide

\* line 685: the best of the generation replaces the global best
retenir_meilleur(meilleur_generation, meilleur_cout_global) ==
    /\ meilleur_generation.valide
    /\ Lt(meilleur_generation.cout, meilleur_cout_global)

\* the head of one generation (lines 674-702): evaluate and sort, keep the
\* best, extend the trace, copy the elites; with no child to make the
\* generation ends here (line 717)
AGGeneration ==
    /\ ag.pc = "evaluer"
    /\ ag.generation < ag.nb_generations
    /\ LET population_evaluee == evaluer_population(ag.population)
           leve == {i \in 1..Len(ag.population) :
                      evaluer_fitness(ag.population[i]).exception # ""}
       IN  IF leve # {}
           THEN AGLever("ZeroDivisionError")
           ELSE IF Len(population_evaluee) = 0
                   \/ ag.nb_elite > Len(population_evaluee)
           THEN AGLever("IndexError")
           ELSE
             LET meilleur_generation == population_evaluee[1]
                 retenu == retenir_meilleur(meilleur_generation,
                                            ag.meilleur_cout_global)
                 meilleur_cout_global ==
                     IF retenu THEN meilleur_generation.cout
                     ELSE ag.meilleur_cout_global
                 elites == garder_elites(population_evaluee, ag.nb_elite)
                 complet == Len(elites) >= ag.taille_population
             IN  /\ ag' = [ag EXCEPT
                             !.meilleur_generation = meilleur_generation,
                             !.meilleur_cout_global = meilleur_cout_global,
                             !.meilleure_tournee_globale =
                                 IF retenu THEN meilleur_generation.individu
                                 ELSE ag.meilleure_tournee_globale,
                             !.historique_meilleurs =
                                 Append(ag.historique_meilleurs, meilleur_cout_global),
                             !.nouvelle_population = IF complet THEN << >> ELSE elites,
                             !.population = IF complet THEN elites ELSE ag.population,
                             !.generation = IF complet THEN ag.generation + 1
                                            ELSE ag.generation,
                             !.pc = IF complet THEN "evaluer" ELSE "reproduire"]
                 /\ UNCHANGED retour
    /\ UNCHANGED <<graphe, camion, meilleure_tournee, meilleur_cout>>

\* one iteration of the loop of lines 705-715: two tournaments, crossover,
\* mutation, sometimes local search; the last child ends the generation
\* (line 717)
AGEnfant ==
    /\ ag.pc = "reproduire"
    /\ LET population_evaluee == evaluer_population(ag.population)
       IN  IF selection_leve(population_evaluee)
           THEN AGLever("ValueError")
           ELSE
             \E parent1 \in selectionner_parents(population_evaluee),
                parent2 \in selectionner_parents(population_evaluee) :
               IF croiser_leve(parent1)
               THEN AGLever("ValueError")
               ELSE
                 \E croise \in croisements(parent1, parent2) :
                   \/ /\ muter_leve(croise, ag.taux_mutation)
                      /\ AGLever("ValueError")
                   \/ \E mute \in muter(croise, ag.taux_mutation) :
                        \E enfant \in {mute, amelioration_locale(mute)} :
                          LET nouvelle_population ==
                                  Append(ag.nouvelle_population, enfant)
                              complet == Len(nouvelle_population)
                                           >= ag.taille_population
                          IN  /\ ag' = [ag EXCEPT
                                          !.nouvelle_population =
                                              IF complet THEN << >>
                                              ELSE nouvelle_population,
                                          !.population =
                                              IF complet THEN nouvelle_population
                                              ELSE ag.population,
                                          !.generation =
                                              IF complet THEN ag.generation + 1
                                              ELSE ag.generation,
                                          !.pc = IF complet THEN "evaluer"
                                                 ELSE "reproduire"]
                              /\ UNCHANGED retour
    /\ UNCHANGED <<graphe, camion, meilleure_tournee, meilleur_cout>>

\* after the last generation (lines 719-730): the summary printed when
\* verbose iterates over the best tour, then the result is stored and
\* returned; the argument verbose (default True) is read here only and is
\* kept as the argument of the call
AGRendre ==
    /\ ag.pc = "evaluer"
    /\ ag.generation >= ag.nb_generations
    /\ \E verbose \in BOOLEAN :
         IF verbose /\ ag.meilleure_tournee_globale = None
         THEN /\ retour' = Retour("algorithme_genetique", <<verbose>>, None,
                                  Inf, FALSE, "", "TypeError", << >>, << >>, 0)
              /\ ag' = [ag EXCEPT !.pc = "fini"]
              /\ UNCHANGED <<meilleure_tournee, meilleur_cout>>
         ELSE /\ meilleure_tournee' = ag.meilleure_tournee_globale
              /\ meilleur_cout' = ag.meilleur_cout_global
              /\ retour' = Retour("algorithme_genetique", <<verbose>>,
                                  ag.meilleure_tournee_globale,
                                  ag.meilleur_cout_global, FALSE, "", "",
                                  << >>, << >>, 0)
              /\ ag' = [ag EXCEPT !.pc = "fini"]
    /\ UNCHANGED <<graphe, camion>>

NextAG == AGAppeler \/ AGSemer \/ AGGeneration \/ AGEnfant \/ AGRendre

SpecAG == InitAG /\ [][NextAG]_vars

\* --------------------------------------------- construction of the model
MaxCote == 2     \* imported matrices have 0..MaxCote rows and columns

\* no GrapheLivraison object exists yet
GrapheAbsent ==
    [n_sites |-> 0, quantite_par_site |-> 0, distances_ajustees |-> << >>]

\* what a call returning a number returned
RetourValeur(appel, arg, valeur, exception) ==
    [appel |-> appel, arg |-> arg, tournee |-> None, cout |-> Inf,
     valide |-> FALSE, raison |-> "", exception |-> exception,
     etats |-> << >>, pas |-> << >>, compteur |-> 0, valeur |-> valeur]

\* the square arrays given as matrice_distances: side 0..MaxCote, a zero
\* diagonal, any distance 1..MaxDist in each direction
MatricesCarrees ==
    UNION {{[shape |-> <<c, c>>,
             valeurs |-> [p \in (0..(c - 1)) \X (0..(c - 1)) |->
                            IF p[1] = p[2] THEN 0 ELSE f[p]]] :
              f \in [{p \in (0..(c - 1)) \X (0..(c - 1)) : p[1] # p[2]}
                       -> 1..MaxDist]} :
           c \in 0..MaxCote}

\* the arrays that are not square: one-dimensional, or two-dimensional
\* with different sides (their entries are never read)
MatricesDifformes ==
    {[shape |-> <<k>>, valeurs |-> [i \in 0..(k - 1) |-> 1]] : k \in 0..MaxCote}
      \cup
    {[shape |-> <<d[1], d[2]>>,
      valeurs |-> [p \in (0..(d[1] - 1)) \X (0..(d[2] - 1)) |-> 1]] :
       d \in {e \in (0..MaxCote) \X (0..MaxCote) : e[1] # e[2]}}

\* _generer_embouteillages: a symmetric factor per pair of sites; the
\* program draws it in [1.0, 2.0], here 1 or 2
Embouteillages(n) ==
    LET cotes == 0..(n - 1)
        paires == {p \in cotes \X cotes : p[1] < p[2]}
    IN  {[p \in cotes \X cotes |->
            IF p[1] = p[2] THEN 1
            ELSE IF p[1] < p[2] THEN f[p] ELSE f[<<p[2], p[1]>>]] :
           f \in [paires -> 1..2]}

\* distances_base * facteurs_embouteillage, entry by entry
Produit(base, facteurs) == [p \in DOMAIN base |-> base[p] * facteurs[p]]

\* the check refusing a total demand equal to the capacity
charge_atteinte(n_sites, quantite_par_site) ==
    n_sites * quantite_par_site >= camion.charge_max

\* the check of lines 105-112 of GrapheLivraison.__init__
charge_depassee(n_sites, quantite_par_site) ==
    n_sites * quantite_par_site > camion.charge_max

\* the trucks a model is constructed for
InitConstruction ==
    /\ \E k \in 0..MaxSites :
         camion = [poids_vide |-> PoidsVide, charge_max |-> k * Quantite,
                   capacite_reservoir |-> MaxReservoir * EchelleCarburant]
    /\ graphe = GrapheAbsent
    /\ meilleure_tournee = None
    /\ meilleur_cout = Inf
    /\ retour = RetourInit
    /\ ag = AGRepos

\* GrapheLivraison(n_sites = n, camion, quantite_par_site): generated mode.
\* np.random.uniform raises on the negative size n_sites = -1.
ConstruireParGeneration ==
    /\ retour.appel = ""
    /\ graphe = GrapheAbsent
    /\ \E n_sites \in (-1)..MaxSites :
         LET arg == [mode |-> "generation", n_sites |-> n_sites,
                     shape |-> << >>, valeurs |-> << >>]
         IN  IF n_sites < 0 \/ charge_depassee(n_sites, Quantite)
             THEN /\ retour' = RetourValeur("GrapheLivraison", arg, 0, "ValueError")
                  /\ UNCHANGED graphe
             ELSE /\ \E m \in Matrices(n_sites) :
                       graphe' = [n_sites |-> n_sites,
                                  quantite_par_site |-> Quantite,
                                  distances_ajustees |-> m]
                  /\ retour' = RetourValeur("GrapheLivraison", arg, 0, "")
    /\ UNCHANGED <<camion, meilleure_tournee, meilleur_cout, ag>>

\* GrapheLivraison(matrice_distances = m, camion, quantite_par_site):
\* imported mode, _init_from_matrix then the check of the total demand.
\* Without positions, _generer_positions draws them and np.random.uniform
\* raises on the negative size of an empty matrix.
ConstruireParMatrice ==
    /\ retour.appel = ""
    /\ graphe = GrapheAbsent
    /\ \E matrice \in MatricesCarrees \cup MatricesDifformes,
          positions_fournies \in BOOLEAN :
         LET n_sites == matrice.shape[1] - 1
             arg == [mode |-> "import", n_sites |-> n_sites,
                     shape |-> matrice.shape, valeurs |-> matrice.valeurs]
         IN  IF Len(matrice.shape) # 2
             THEN /\ retour' = RetourValeur("GrapheLivraison", arg, 0, "ValueError")
                  /\ UNCHANGED graphe
             ELSE IF matrice.shape[1] # matrice.shape[2]
             THEN /\ retour' = RetourValeur("GrapheLivraison", arg, 0, "ValueError")
                  /\ UNCHANGED graphe
             ELSE IF ~positions_fournies /\ n_sites < 0
             THEN /\ retour' = RetourValeur("GrapheLivraison", arg, 0, "ValueError")
                  /\ UNCHANGED graphe
             ELSE IF charge_depassee(n_sites, Quantite)
             THEN /\ retour' = RetourValeur("GrapheLivraison", arg, 0, "ValueError")
                  /\ UNCHANGED graphe
             ELSE /\ \E facteurs \in Embouteillages(matrice.shape[1]) :
                       graphe' = [n_sites |-> n_sites,
                                  quantite_par_site |-> Quantite,
                                  distances_ajustees |->
                                      Produit(matrice.valeurs, facteurs)]
                  /\ retour' = RetourValeur("GrapheLivraison", arg, 0, "")
    /\ UNCHANGED <<camion, meilleure_tournee, meilleur_cout, ag>>

\* generer_scenario_livraison(n_sites), n_sites counting the depot
GenererScenario ==
    /\ retour.appel = ""
    /\ \E n_sites \in 0..(MaxSites + 1) :
         LET arg == [mode |-> "scenario", n_sites |-> n_sites,
                     shape |-> << >>, valeurs |-> << >>]
         IN  retour' = RetourValeur("generer_scenario_livraison", arg, 0,
                                    IF n_sites < 2 THEN "ValueError" ELSE "")
    /\ UNCHANGED <<graphe, camion, meilleure_tournee, meilleur_cout, ag>>

\* numpy's index on an axis of the given size: a negative index counts
\* from the end, anything else outside is an IndexError
HorsAxe == -1
indice_numpy(i, taille) ==
    IF 0 <= i /\ i < taille THEN i
    ELSE IF -taille <= i /\ i < 0 THEN i + taille
    ELSE HorsAxe

\* a call of distance_ajustee(site_i, site_j) on the constructed model
AppelerDistance ==
    /\ retour.appel = ""
    /\ graphe # GrapheAbsent
    /\ \E site_i \in (-(n_total + 1))..n_total,
          site_j \in (-(n_total + 1))..n_total :
         LET i == indice_numpy(site_i, n_total)
             j == indice_numpy(site_j, n_total)
         IN  retour' =
               IF i = HorsAxe \/ j = HorsAxe
               THEN RetourValeur("distance_ajustee", <<site_i, site_j>>, 0,
                                 "IndexError")
               ELSE RetourValeur("distance_ajustee", <<site_i, site_j>>,
                                 distance_ajustee(i, j), "")
    /\ UNCHANGED <<graphe, camion, meilleure_tournee, meilleur_cout, ag>>

NextConstruction ==
    \/ ConstruireParGeneration
    \/ ConstruireParMatrice
    \/ GenererScenario
    \/ AppelerDistance
    \/ Reprendre

SpecConstruction == InitConstruction /\ [][NextConstruction]_vars

\* --------------------------------- the operators of algorithme_genetique
\* The nested functions of algorithme_genetique (reparer_individu,
\* selectionner_parents, croiser, muter, amelioration_locale) called one
\* at a time on individuals of instances of up to MaxSitesOperateurs stops.
MaxSitesOperateurs == 3

\* tanks in litres, from one that allows the shortest tours only to one
\* that allows most tours of MaxSitesOperateurs stops
ReservoirsOperateurs == {2 * r : r \in 1..(MaxReservoir - 1)}

InitOperateurs ==
    /\ \E n \in 1..MaxSitesOperateurs :
         \E m \in Matrices(n) :
           /\ graphe = [n_sites |-> n, quantite_par_site |-> Quantite,
                        distances_ajustees |-> m]
           /\ \E r \in ReservoirsOperateurs :
                camion = [poids_vide |-> PoidsVide,
                          charge_max |-> n * Quantite,
                          capacite_reservoir |-> r * EchelleCarburant]
    /\ meilleure_tournee = None
    /\ meilleur_cout = Inf
    /\ retour = RetourValeur("", << >>, None, "")
    /\ ag = AGRepos

\* the individuals of the instance: creer_individu_aleatoire can return
\* every depot-wrapped ordering of the stops
Individus == creer_individu_aleatoire

\* population sizes for a tournament: large instances get one size only
TaillesTournois ==
    IF graphe.n_sites <= MaxSites THEN {2, 3, 4} ELSE {TailleTournoi}

\* sequences of k individuals
Populations(k) == [1..k -> Individus]

\* a call of reparer_individu(tournee)
AppelerReparer ==
    /\ retour.appel = ""
    /\ \E tournee \in Individus :
         retour' = RetourValeur("reparer_individu", tournee,
                                reparer_individu(tournee), "")
    /\ UNCHANGED <<graphe, camion, meilleure_tournee, meilleur_cout, ag>>

\* a call of selectionner_parents on the evaluated and sorted population
\* of lines 675-681; the draw of random.sample is kept with the argument
AppelerSelection ==
    /\ retour.appel = ""
    /\ \E k \in TaillesTournois :
         \E population \in Populations(k) :
           \E population_evaluee \in {evaluer_population(population)} :
             LET arg(t) == [population |-> population,
                            population_evaluee |-> population_evaluee,
                            tirage |-> t]
             IN  IF selection_leve(population_evaluee)
                 THEN retour' = RetourValeur("selectionner_parents", arg(<< >>),
                                             None, "ValueError")
                 ELSE \E t \in tirages(population_evaluee) :
                        retour' = RetourValeur("selectionner_parents", arg(t),
                                    gagnant(tournoi_tire(population_evaluee, t)).individu,
                                    "")
    /\ UNCHANGED <<graphe, camion, meilleure_tournee, meilleur_cout, ag>>

\* a call of croiser(parent1, parent2); debut and fin are the two draws
\* of lines 591-592
AppelerCroiser ==
    /\ retour.appel = ""
    /\ \E parent1 \in Individus, parent2 \in Individus :
         IF croiser_leve(parent1)
         THEN retour' = RetourValeur("croiser",
                          [parent1 |-> parent1, parent2 |-> parent2,
                           debut |-> 0, fin |-> 0], None, "ValueError")
         ELSE \E debut \in 0..(Len(Interieur(parent1)) - 2) :
                \E fin \in (debut + 1)..Len(Interieur(parent1)) :
                  retour' = RetourValeur("croiser",
                              [parent1 |-> parent1, parent2 |-> parent2,
                               debut |-> debut, fin |-> fin],
                              croiser(parent1, parent2, debut, fin), "")
    /\ UNCHANGED <<graphe, camion, meilleure_tournee, meilleur_cout, ag>>

\* a call of muter(tournee) at one of the mutation rates
AppelerMuter ==
    /\ retour.appel = ""
    /\ \E tournee \in Individus, taux_mutation \in TauxMutation :
         LET arg == [tournee |-> tournee, taux_mutation |-> taux_mutation]
         IN  \/ /\ muter_leve(tournee, taux_mutation)
                /\ retour' = RetourValeur("muter", arg, None, "ValueError")
             \/ \E mute \in muter(tournee, taux_mutation) :
                  retour' = RetourValeur("muter", arg, mute, "")
    /\ UNCHANGED <<graphe, camion, meilleure_tournee, meilleur_cout, ag>>

\* a call of amelioration_locale(tournee)
AppelerAmeliorationLocale ==
    /\ retour.appel = ""
    /\ \E tournee \in Individus :
         retour' = RetourValeur("amelioration_locale", tournee,
                                amelioration_locale(tournee), "")
    /\ UNCHANGED <<graphe, camion, meilleure_tournee, meilleur_cout, ag>>

\* the caller takes the value; the next call can be made
ReprendreOperateur ==
    /\ retour.appel # ""
    /\ retour' = RetourValeur("", << >>, None, "")
    /\ UNCHANGED <<graphe, camion, meilleure_tournee, meilleur_cout, ag>>

NextOperateurs ==
    \/ AppelerReparer
    \/ AppelerSelection
    \/ AppelerCroiser
    \/ AppelerMuter
    \/ AppelerAmeliorationLocale
    \/ ReprendreOperateur

SpecOperateurs == InitOperateurs /\ [][NextOperateurs]_vars

\* ------------------------------------------------- one solver, two callers
\* Two threads call the same SolveurTSP.  A call works on its own local
\* variables; the only shared data it writes are self.meilleure_tournee and
\* self.meilleur_cout, by two assignment statements one after the other
\* (lines 230-231, 333-334), between which the other thread may run.
\* retour holds, for each thread, the call it is in, where it stands in it
\* and its local tournee / cout.
SitesPartages == 3

Fils == {1, 2}

\* the thread is between calls, the thread stands before the first
\* assignment, between the two, the call has returned
Fil(pc, appel, arg, tournee, cout, valide, raison, exception) ==
    [pc |-> pc, appel |-> appel, arg |-> arg, tournee |-> tournee,
     cout |-> cout, valide |-> valide, raison |-> raison,
     exception |-> exception]

FilRepos == Fil("repos", "", << >>, None, Inf, FALSE, "", "")

\* tanks in litres: one too small for any tour, and two that allow some
\* or all of the orderings of SitesPartages stops
ReservoirsPartages == {1, MaxReservoir + 1, MaxReservoir + 2}

InitPartage ==
    /\ \E n \in (SitesPartages - 1)..SitesPartages :
         \E m \in Matrices(n) :
           /\ graphe = [n_sites |-> n, quantite_par_site |-> Quantite,
                        distances_ajustees |-> m]
           /\ \E r \in ReservoirsPartages :
                camion = [poids_vide |-> PoidsVide,
                          charge_max |-> n * Quantite,
                          capacite_reservoir |-> r * EchelleCarburant]
    /\ meilleure_tournee = None
    /\ meilleur_cout = Inf
    /\ retour = [f \in Fils |-> FilRepos]
    /\ ag = AGRepos

\* the complete tours, and one that does not come back to the depot
TourneesPartagees ==
    LET perms == permutations(Range(1, n_total))
    IN  {tournee_complete(perms[k]) : k \in 1..Len(perms)} \cup {<<0, 1>>}

\* thread f calls calculer_cout_tournee(tournee): nothing shared is written
FilEvaluer(f) ==
    /\ retour[f].pc = "repos"
    /\ \E tournee \in TourneesPartagees :
         LET r == calculer_cout_tournee(tournee)
         IN  retour' = [retour EXCEPT ![f] =
                          Fil("rendu", "calculer_cout_tournee", tournee, None,
                              r.cout, r.valide, r.raison, r.exception)]
    /\ UNCHANGED <<graphe, camion, meilleure_tournee, meilleur_cout, ag>>

\* thread f runs force_brute() up to line 230
FilForceBrute(f) ==
    /\ retour[f].pc = "repos"
    /\ retour' = [retour EXCEPT ![f] =
                    IF refuse_force_brute
                    THEN Fil("rendu", "force_brute", << >>, None, Inf, FALSE, "",
                             "ValueError")
                    ELSE LET r == force_brute
                         IN  Fil("ecrire_tournee", "force_brute", << >>,
                                 r.tournee, r.cout, FALSE, "", "")]
    /\ UNCHANGED <<graphe, camion, meilleure_tournee, meilleur_cout, ag>>

\* thread f runs glouton_plus_proche() up to line 333, or to the return
\* of line 302
FilGlouton(f) ==
    /\ retour[f].pc = "repos"
    /\ LET w == marche_gloutonne
       IN  retour' = [retour EXCEPT ![f] =
                        IF w.impasse
                        THEN Fil("rendu", "glouton_plus_proche", << >>, None, Inf,
                                 FALSE, "", "")
                        ELSE LET r == calculer_cout_tournee(w.tournee)
                             IN  Fil("ecrire_tournee", "glouton_plus_proche",
                                     << >>, w.tournee, r.cout, r.valide,
                                     r.raison, r.exception)]
    /\ UNCHANGED <<graphe, camion, meilleure_tournee, meilleur_cout, ag>>

\* lines 230, 333: self.meilleure_tournee = tournee
FilEcrireTournee(f) ==
    /\ retour[f].pc = "ecrire_tournee"
    /\ meilleure_tournee' = retour[f].tournee
    /\ retour' = [retour EXCEPT ![f].pc = "ecrire_cout"]
    /\ UNCHANGED <<graphe, camion, meilleur_cout, ag>>

\* lines 231, 334: self.meilleur_cout = cout, and the return
FilEcrireCout(f) ==
    /\ retour[f].pc = "ecrire_cout"
    /\ meilleur_cout' = retour[f].cout
    /\ retour' = [retour EXCEPT ![f].pc = "rendu"]
    /\ UNCHANGED <<graphe, camion, meilleure_tournee, ag>>

NextPartage ==
    \E f \in Fils :
      \/ FilEvaluer(f)
      \/ FilForceBrute(f)
      \/ FilGlouton(f)
      \/ FilEcrireTournee(f)
      \/ FilEcrireCout(f)

SpecPartage == InitPartage /\ [][NextPartage]_vars

\* ------------------------------------------- calls in sequence, three stops
\* The calls of Spec, one after the other on one solver, on the instances
\* of SitesPartages stops: with three stops the greedy walk can reach a
\* dead end on an instance that has a valid tour.
InitSuite ==
    /\ \E m \in Matrices(SitesPartages) :
         /\ graphe = [n_sites |-> SitesPartages, quantite_par_site |-> Quantite,
                      distances_ajustees |-> m]
         /\ \E r \in 1..(MaxReservoir + 1) :
              camion = [poids_vide |-> PoidsVide,
                        charge_max |-> SitesPartages * Quantite,
                        capacite_reservoir |-> r * EchelleCarburant]
    /\ meilleure_tournee = None
    /\ meilleur_cout = Inf
    /\ retour = RetourInit
    /\ ag = AGRepos

SpecSuite == InitSuite /\ [][Next]_vars

\* ====================================================================
\* Properties
\* ====================================================================
EstAppel(nom) == retour.appel = nom

\* depot + a permutation of all stops 1..n + depot
EstTourneeComplete(t) ==
    /\ Len(t) = graphe.n_sites + 2
    /\ t[1] = 0
    /\ t[Len(t)] = 0
    /\ {t[k] : k \in 2..(Len(t) - 1)} = 1..graphe.n_sites

\* The run of a tour t in closed form, leg k going from t[k] to t[k + 1]:
\* the load on board after leg k
ChargeApres(t, k) ==
    graphe.quantite_par_site
      * (graphe.n_sites - Cardinality({j \in 2..(k + 1) : t[j] # 0}))

\* the fuel leg k burns, at the weight on departure from t[k]
ConsoTroncon(t, k) ==
    consommation_carburant(distance_ajustee(t[k], t[k + 1]),
                           camion.poids_vide + ChargeApres(t, k - 1))

\* the fuel burnt by the legs 1..k
RECURSIVE SommeConso(_, _)
SommeConso(t, k) ==
    IF k = 0 THEN 0 ELSE SommeConso(t, k - 1) + ConsoTroncon(t, k)

\* the fuel left after leg k
CarburantApres(t, k) == camion.capacite_reservoir - SommeConso(t, k)

\* leg k can be driven with the fuel left
TronconPossible(t, k) == ConsoTroncon(t, k) <= CarburantApres(t, k - 1)

\* after leg k, if it ends at a stop, the depot is within reach
RetourGaranti(t, k) ==
    t[k + 1] # 0 =>
      peut_revenir_au_depot(t[k + 1], CarburantApres(t, k), ChargeApres(t, k))

\* the legs 1..k are driven and leave the depot within reach
SansEchecJusqua(t, k) ==
    \A j \in 1..k : TronconPossible(t, j) /\ RetourGaranti(t, j)

\* the Evaluator got past its structural checks on the tour it was given
ASimule == /\ EstAppel("calculer_cout_tournee")
           /\ retour.exception = ""
           /\ retour.raison \notin {"depot", "doublon", "manquant"}

\* C1: every tour the Evaluator reports valid is depot + a permutation of
\* all stops 1..n + depot (a tour that omits a stop or repeats one is never
\* reported valid)
C1_ValideEstComplete ==
    (EstAppel("calculer_cout_tournee") /\ retour.valide)
      => EstTourneeComplete(retour.arg)

\* C2: in a tour reported valid the depot is within reach in the run-state
\* right after the delivery at every stop, and the Evaluator answers
\* (+inf, false, return-to-depot reason) exactly when the first failure of
\* the run is a stop reached by an affordable leg from which the depot is
\* out of reach
C2_RetourToujoursPossible ==
    ASimule =>
      LET t == retour.arg
      IN  /\ retour.valide =>
               \A k \in 1..(Len(t) - 1) :
                 /\ RetourGaranti(t, k)
                 /\ retour.etats[k].site = t[k + 1]
                 /\ retour.etats[k].carburant = CarburantApres(t, k)
                 /\ retour.etats[k].charge = ChargeApres(t, k)
          /\ (\E k \in 1..(Len(t) - 1) :
                /\ SansEchecJusqua(t, k - 1)
                /\ TronconPossible(t, k)
                /\ ~RetourGaranti(t, k))
             <=> (retour.raison = "retour" /\ retour.cout = Inf /\ ~retour.valide)

\* C2 witness: a tour refused for the return to the depot at a stop that
\* was reached by an affordable leg, after at least one stop went well
C2_Temoin ==
    /\ ASimule
    /\ EstTourneeComplete(retour.arg)
    /\ retour.raison = "retour"
    /\ Len(retour.etats) >= 2
    /\ retour.etats[Len(retour.etats)].carburant >= 0

\* C3: leg k burns the fuel of the adjusted distance at the weight with the
\* load on departure; the pass fails for fuel shortage exactly when the
\* first failure is a leg that needs strictly more than the fuel left;
\* a run without failure returns the sum of the leg fuels, valid, no reason
C3_TronconsEtCout ==
    ASimule =>
      LET t == retour.arg
          dernier == Len(t) - 1
      IN  /\ \A k \in 1..Len(retour.etats) :
               /\ retour.etats[k].consommation = ConsoTroncon(t, k)
               /\ retour.etats[k].carburant = CarburantApres(t, k)
          /\ (\E k \in 1..dernier :
                SansEchecJusqua(t, k - 1) /\ ~TronconPossible(t, k))
             <=> (retour.raison = "panne" /\ retour.cout = Inf /\ ~retour.valide)
          /\ SansEchecJusqua(t, dernier)
             <=> (retour.valide /\ retour.raison = ""
                  /\ retour.cout = SommeConso(t, dernier))

\* C3 witness: a valid tour over at least two stops in which some leg
\* burns exactly the fuel that was left
C3_Temoin ==
    /\ ASimule
    /\ EstTourneeComplete(retour.arg)
    /\ retour.valide
    /\ graphe.n_sites >= 2
    /\ \E k \in 1..Len(retour.etats) : retour.etats[k].carburant = 0
    /\ retour.cout = SommeConso(retour.arg, Len(retour.arg) - 1)

\* every ordering of the stops 1..n
Ordres ==
    {p \in [1..graphe.n_sites -> 1..graphe.n_sites] :
       \A i, j \in 1..graphe.n_sites : i # j => p[i] # p[j]}

\* the Evaluator's answer for the depot-wrapped ordering p
Evaluation(p) == calculer_cout_tournee(<<0>> \o p \o <<0>>)

OrdresValides == {p \in Ordres : Evaluation(p).valide}

\* p comes before q in the enumeration of itertools.permutations over the
\* stops in increasing order: at the first position where they differ p
\* holds the smaller stop
Precede(p, q) ==
    \E i \in 1..Len(p) :
      /\ p[i] < q[i]
      /\ \A j \in 1..(i - 1) : p[j] = q[j]

RECURSIVE Factorielle(_)
Factorielle(n) == IF n = 0 THEN 1 ELSE n * Factorielle(n - 1)

\* force_brute ran its enumeration and returned
ForceBruteRendu == EstAppel("force_brute") /\ retour.exception = ""

\* the returned tour is valid for the Evaluator and no valid depot-wrapped
\* ordering is cheaper
EstOptimum(tournee, cout) ==
    /\ tournee # None
    /\ calculer_cout_tournee(tournee).valide
    /\ calculer_cout_tournee(tournee).cout = cout
    /\ \A p \in OrdresValides : cout <= Evaluation(p).cout

\* C4 as stated: on every instance within the ceiling force_brute returns
\* a valid tour of minimum cost
C4_OptimumToujours ==
    ForceBruteRendu => EstOptimum(retour.tournee, retour.cout)

\* C4 amended: force_brute evaluates every ordering; when no ordering is
\* valid it returns (None, +inf); otherwise it returns a valid tour of
\* minimum cost, the first of the minima in enumeration order
C4_OptimumSiRealisable ==
    ForceBruteRendu =>
      /\ retour.compteur = Factorielle(graphe.n_sites)
      /\ IF OrdresValides = {}
         THEN retour.tournee = None /\ retour.cout = Inf
         ELSE /\ EstOptimum(retour.tournee, retour.cout)
              /\ EstTourneeComplete(retour.tournee)
              /\ \A p \in OrdresValides :
                   (Evaluation(p).cout = retour.cout
                      /\ <<0>> \o p \o <<0>> # retour.tournee)
                   => Precede(Interieur(retour.tournee), p)

\* C4 witness: force_brute returned a tour and another ordering is valid
\* at the same cost
C4_Temoin ==
    /\ ForceBruteRendu
    /\ retour.tournee # None
    /\ \E p \in OrdresValides :
         /\ Evaluation(p).cout = retour.cout
         /\ <<0>> \o p \o <<0>> # retour.tournee

\* what glouton_plus_proche would return in this state: its tour and the
\* Evaluator's cost for it, or None
GloutonRendrait ==
    LET w == marche_gloutonne
    IN  IF w.impasse THEN [tournee |-> None, cout |-> Inf]
        ELSE [tournee |-> w.tournee, cout |-> calculer_cout_tournee(w.tournee).cout]

\* C5: when force_brute and glouton_plus_proche both return a tour on the
\* same instance, the cost force_brute returns is <= the greedy cost
C5_ExactDomine ==
    (ForceBruteRendu /\ retour.tournee # None /\ GloutonRendrait.tournee # None)
      => /\ retour.cout # Inf
         /\ Le(retour.cout, GloutonRendrait.cout)

\* C5 witness: both solvers return a tour on an instance with two stops
\* on which some valid ordering costs more than the greedy tour
C5_Temoin ==
    /\ ForceBruteRendu
    /\ retour.tournee # None
    /\ GloutonRendrait.tournee # None
    /\ graphe.n_sites = 2
    /\ \E p \in OrdresValides : Evaluation(p).cout > GloutonRendrait.cout

\* C6: the Evaluator called on the tour force_brute returned answers
\* exactly (the returned cost, true, "")
C6_AllerRetour ==
    (ForceBruteRendu /\ retour.tournee # None)
      => LET r == calculer_cout_tournee(retour.tournee)
         IN  /\ r.cout = retour.cout
             /\ r.valide
             /\ r.raison = ""
             /\ r.exception = ""
             /\ meilleure_tournee = retour.tournee
             /\ meilleur_cout = retour.cout

\* C6 witness: force_brute returned a tour that is not the last valid
\* ordering it evaluated
C6_Temoin ==
    /\ ForceBruteRendu
    /\ retour.tournee # None
    /\ \E p \in OrdresValides : Precede(Interieur(retour.tournee), p)

\* C7: a call of force_brute above the ceiling raises the size error
\* with no permutation evaluated and the stored result untouched; a call
\* within the ceiling raises nothing and evaluates all n! orderings
C7_RefusAvantTravail ==
    [][(retour.appel = "" /\ retour'.appel = "force_brute")
         => IF graphe.n_sites > Plafond
            THEN /\ retour'.exception = "ValueError"
                 /\ retour'.compteur = 0
                 /\ meilleure_tournee' = meilleure_tournee
                 /\ meilleur_cout' = meilleur_cout
            ELSE /\ retour'.exception = ""
                 /\ retour'.compteur = Factorielle(graphe.n_sites)]_vars

\* C7 witness: force_brute refused an instance of Plafond + 1 stops while
\* the solver held the result of an earlier call
C7_Temoin ==
    /\ EstAppel("force_brute")
    /\ retour.exception = "ValueError"
    /\ graphe.n_sites = Plafond + 1
    /\ meilleure_tournee # None

\* The state of the greedy walk after the moves recorded in retour.pas
PositionGlouton ==
    IF retour.pas = << >> THEN 0 ELSE retour.pas[Len(retour.pas)].site
CarburantGlouton ==
    IF retour.pas = << >> THEN camion.capacite_reservoir
    ELSE retour.pas[Len(retour.pas)].carburant
ChargeGlouton ==
    IF retour.pas = << >> THEN graphe.n_sites * graphe.quantite_par_site
    ELSE retour.pas[Len(retour.pas)].charge
NonVisites ==
    (1..graphe.n_sites) \ {retour.pas[k].site : k \in 1..Len(retour.pas)}

\* stop s can be reached from the walk's state: the leg is affordable and
\* the depot is within reach after the delivery at s
Atteignable(s) ==
    LET conso == consommation_carburant(distance_ajustee(PositionGlouton, s),
                                        camion.poids_vide + ChargeGlouton)
    IN  /\ conso <= CarburantGlouton
        /\ peut_revenir_au_depot(s, CarburantGlouton - conso,
                                 ChargeGlouton - graphe.quantite_par_site)

\* the walk stopped with stops left and none of them reachable
ImpasseGlouton == NonVisites # {} /\ \A s \in NonVisites : ~Atteignable(s)

C9_GloutonValide ==
    (EstAppel("glouton_plus_proche") /\ retour.tournee # None) =>
      /\ Len(retour.tournee) = graphe.n_sites + 2
      /\ EstTourneeComplete(retour.tournee)
      /\ retour.valide
      /\ retour.cout # Inf
      /\ retour.cout = SommeConso(retour.tournee, graphe.n_sites + 1)
      /\ Len(retour.pas) = graphe.n_sites
      /\ \A k \in 1..graphe.n_sites :
           /\ retour.pas[k].site = retour.tournee[k + 1]
           /\ retour.pas[k].carburant = retour.etats[k].carburant
           /\ retour.pas[k].charge = retour.etats[k].charge

\* C9 witness: a greedy tour over two stops that visits stop 2 first
\* because it is strictly nearer to the depot than stop 1
C9_Temoin ==
    /\ EstAppel("glouton_plus_proche")
    /\ retour.tournee = <<0, 2, 1, 0>>
    /\ distance_ajustee(0, 2) < distance_ajustee(0, 1)
    /\ retour.cout = SommeConso(retour.tournee, 3)

\* algorithme_genetique returned its triple
AGRendu == EstAppel("algorithme_genetique") /\ retour.exception = ""

\* C10: the per-generation best-cost trace of algorithme_genetique is
\* non-increasing, entry after entry, while it is built and when it is
\* returned
C10_TraceDecroissante ==
    \A g \in 1..(Len(ag.historique_meilleurs) - 1) :
      Le(ag.historique_meilleurs[g + 1], ag.historique_meilleurs[g])

\* C10 witness: a returned trace of two entries or more whose last
\* generation had lost the best tour: the best of that generation costs
\* more than the trace entry recorded for it
C10_Temoin ==
    /\ AGRendu
    /\ Len(ag.historique_meilleurs) >= 2
    /\ ag.meilleur_generation.valide
    /\ ag.historique_meilleurs[Len(ag.historique_meilleurs)] # Inf
    /\ ag.meilleur_generation.cout
         > ag.historique_meilleurs[Len(ag.historique_meilleurs)]

\* the least cost the Evaluator gives to a valid individual of the
\* population, +inf when none is valid
MeilleurCoutValide(population) ==
    LET couts == {calculer_cout_tournee(population[i]).cout :
                    i \in {j \in 1..Len(population) :
                             calculer_cout_tournee(population[j]).valide}}
    IN  IF couts = {} THEN Inf
        ELSE CHOOSE c \in couts : \A d \in couts : c <= d

\* the last entry of the trace, +inf for the empty trace
DernierHistorique(h) == IF h = << >> THEN Inf ELSE h[Len(h)]

\* what algorithme_genetique returns agrees with its trace
C11_RenduConforme ==
    AGRendu =>
      /\ Len(ag.historique_meilleurs) = ag.nb_generations
      /\ retour.cout = DernierHistorique(ag.historique_meilleurs)
      /\ retour.cout = Inf <=> retour.tournee = None
      /\ retour.tournee # None =>
           /\ calculer_cout_tournee(retour.tournee).valide
           /\ calculer_cout_tournee(retour.tournee).cout = retour.cout

\* every generation appends the least of the previous entry and the best
\* valid cost of the population it evaluated
C11_EntreeEstMinimum ==
    (ag'.historique_meilleurs # ag.historique_meilleurs) =>
      /\ Len(ag'.historique_meilleurs) = Len(ag.historique_meilleurs) + 1
      /\ Len(ag'.historique_meilleurs) = ag.generation + 1
      /\ SubSeq(ag'.historique_meilleurs, 1, Len(ag.historique_meilleurs))
           = ag.historique_meilleurs
      /\ LET precedent == DernierHistorique(ag.historique_meilleurs)
             present == MeilleurCoutValide(ag.population)
         IN  DernierHistorique(ag'.historique_meilleurs)
               = IF Lt(present, precedent) THEN present ELSE precedent

\* C11: algorithme_genetique returns a trace of exactly nb_generations
\* entries, entry g being the minimum cost over the valid individuals of
\* the populations evaluated in generations 0..g; the returned cost is the
\* last entry and the returned tour is valid at exactly that cost, or None
\* when the cost is +inf
C11_TraceEtRendu == [] C11_RenduConforme /\ [][C11_EntreeEstMinimum]_vars

\* C11 witness: a run of two generations or more returned a valid tour
\* although no individual of the last evaluated population was valid
C11_Temoin ==
    /\ AGRendu
    /\ Len(ag.historique_meilleurs) >= 2
    /\ retour.tournee # None
    /\ ~ag.meilleur_generation.valide

\* a constructor call returned or raised
EstConstruction == EstAppel("GrapheLivraison")

\* the constructor was given a site count >= 0, or a square
\* two-dimensional matrix of side >= 1
EntreeBienFormee ==
    \/ retour.arg.mode = "generation" /\ retour.arg.n_sites >= 0
    \/ /\ retour.arg.mode = "import"
       /\ Len(retour.arg.shape) = 2
       /\ retour.arg.shape[1] = retour.arg.shape[2]
       /\ retour.arg.shape[1] >= 1

\* C12: a construction whose total demand n_sites x quantite_par_site is
\* strictly above camion.charge_max raises ValueError in both modes and
\* leaves no model; a demand equal to (or below) charge_max is accepted;
\* hence no constructed model ever exceeds the capacity
C12_ChargeVerifiee ==
    /\ (EstConstruction /\ EntreeBienFormee) =>
         IF retour.arg.n_sites * Quantite > camion.charge_max
         THEN retour.exception = "ValueError" /\ graphe = GrapheAbsent
         ELSE /\ retour.exception = ""
              /\ graphe # GrapheAbsent
              /\ graphe.n_sites = retour.arg.n_sites
    /\ graphe # GrapheAbsent =>
         graphe.n_sites * graphe.quantite_par_site <= camion.charge_max

\* C12 witness: an imported square matrix with one stop or more refused
\* for a demand above the capacity
C12_Temoin ==
    /\ EstConstruction
    /\ retour.arg.mode = "import"
    /\ EntreeBienFormee
    /\ retour.arg.n_sites >= 1
    /\ retour.arg.n_sites * Quantite > camion.charge_max
    /\ retour.exception = "ValueError"

\* the imported matrix is symmetric
EntreeSymetrique ==
    \A p \in DOMAIN retour.arg.valeurs :
      retour.arg.valeurs[p] = retour.arg.valeurs[<<p[2], p[1]>>]

\* C13: an imported matrix that is not two-dimensional, not square or not
\* symmetric is refused with ValueError, so every constructed model has
\* distance_ajustee(i, j) = distance_ajustee(j, i)
C13_MatriceVerifiee ==
    /\ (EstConstruction /\ retour.arg.mode = "import") =>
         ((Len(retour.arg.shape) # 2
             \/ retour.arg.shape[1] # retour.arg.shape[2]
             \/ ~EntreeSymetrique)
            => retour.exception = "ValueError")
    /\ graphe # GrapheAbsent =>
         \A i, j \in 0..graphe.n_sites :
           distance_ajustee(i, j) = distance_ajustee(j, i)

\* C14: a construction with fewer than one delivery stop (n_sites <= 0, a
\* matrix of side <= 1, generer_scenario_livraison(n_sites < 2)) raises
\* ValueError
C14_MinimumDeSites ==
    /\ (EstConstruction /\ retour.arg.n_sites < 1)
         => retour.exception = "ValueError"
    /\ (EstAppel("generer_scenario_livraison") /\ retour.arg.n_sites < 2)
         => retour.exception = "ValueError"

\* C15: distance_ajustee(i, j) returns a value >= 0 when i and j are both
\* in 0..n and raises IndexError otherwise, negative indices included
C15_DistanceDansDomaine ==
    EstAppel("distance_ajustee") =>
      IF /\ retour.arg[1] \in 0..graphe.n_sites
         /\ retour.arg[2] \in 0..graphe.n_sites
      THEN retour.exception = "" /\ retour.valeur >= 0
      ELSE retour.exception = "IndexError"

\* what the Evaluator answers for the tour t in the current state
Triple(t) ==
    LET r == calculer_cout_tournee(t)
    IN  <<r.cout, r.valide, r.raison, r.exception>>

\* C16: calculer_cout_tournee is pure: no step of any call (Evaluator,
\* force_brute, glouton_plus_proche) changes the answer the Evaluator
\* gives for any tour, nor the network and vehicle data, and an Evaluator
\* call returns that answer and leaves the stored meilleure_tournee /
\* meilleur_cout as they were
C16_EvaluateurPur ==
    [][/\ \A t \in Tournees : Triple(t)' = Triple(t)
       /\ graphe' = graphe
       /\ camion' = camion
       /\ (retour.appel = "" /\ retour'.appel = "calculer_cout_tournee") =>
            /\ meilleure_tournee' = meilleure_tournee
            /\ meilleur_cout' = meilleur_cout
            /\ <<retour'.cout, retour'.valide, retour'.raison, retour'.exception>>
                 = Triple(retour'.arg)]_vars

\* C16 witness: the Evaluator answers for a valid tour other than the one
\* a solver call stored before
C16_Temoin ==
    /\ EstAppel("calculer_cout_tournee")
    /\ retour.valide
    /\ meilleure_tournee # None
    /\ retour.arg # meilleure_tournee

\* C17: on an instance of two stops or more where no depot-wrapped
\* ordering of the stops is valid, algorithme_genetique called with
\* verbose at its default (True), a population that allows the
\* tournaments and one generation or more ends, once its generations are
\* done, by returning (None, +inf) without raising
C17_SentinelleSansException ==
    (/\ EstAppel("algorithme_genetique")
     /\ OrdresValides = {}
     /\ graphe.n_sites >= 2
     /\ ag.taille_population >= TailleTournoi
     /\ ag.nb_generations >= 1
     /\ ag.generation = ag.nb_generations
     /\ retour.arg = <<TRUE>>)
      => /\ retour.exception = ""
         /\ retour.tournee = None
         /\ retour.cout = Inf

\* C19: glouton_plus_proche returns a complete tour with a finite cost on
\* every instance the constructor accepts, and comparer_methodes, which
\* prints that tour without testing it for None, raises nothing
C19_GloutonTrouveToujours ==
    /\ EstAppel("glouton_plus_proche") =>
         /\ retour.tournee # None
         /\ retour.cout # Inf
    /\ EstAppel("comparer_methodes") => retour.exception = ""

\* where the greedy walk stands before its k-th move: the current site,
\* the fuel, the load and the unvisited stops
AvantPas(k) ==
    IF k = 1
    THEN [site |-> 0, carburant |-> camion.capacite_reservoir,
          charge |-> graphe.n_sites * graphe.quantite_par_site,
          restants |-> 1..graphe.n_sites]
    ELSE LET e == retour.pas[k - 1]
         IN  [site |-> e.site, carburant |-> e.carburant, charge |-> e.charge,
              restants |-> e.restants \ {e.site}]

\* the fuel of the leg to stop s before the k-th move
ConsoVers(k, s) ==
    consommation_carburant(distance_ajustee(AvantPas(k).site, s),
                           camion.poids_vide + AvantPas(k).charge)

\* the unvisited stops the k-th move may go to: the leg fuel is within the
\* fuel left, and the depot can be reached after the delivery
Candidats(k) ==
    {s \in AvantPas(k).restants :
       /\ ConsoVers(k, s) <= AvantPas(k).carburant
       /\ peut_revenir_au_depot(s, AvantPas(k).carburant - ConsoVers(k, s),
                                AvantPas(k).charge - graphe.quantite_par_site)}

\* C20: every move of glouton_plus_proche goes to a stop of minimum
\* adjusted distance among the unvisited stops whose leg is affordable
\* and from which the depot can be reached after the delivery, the one
\* of lowest index among those at that distance; the move removes the
\* stop from the unvisited set, subtracts the leg fuel from the fuel and
\* one per-stop demand from the load; the walk makes at most n moves and
\* stops when no stop is left or none is a candidate
C20_ChoixGlouton ==
    EstAppel("glouton_plus_proche") =>
      /\ Len(retour.pas) <= graphe.n_sites
      /\ \A k \in 1..Len(retour.pas) :
           LET e == retour.pas[k]
               a == AvantPas(k)
           IN  /\ e.depart = a.site
               /\ e.restants = a.restants
               /\ e.site \in Candidats(k)
               /\ \A s \in Candidats(k) :
                    \/ distance_ajustee(a.site, e.site) < distance_ajustee(a.site, s)
                    \/ /\ distance_ajustee(a.site, e.site) = distance_ajustee(a.site, s)
                       /\ e.site <= s
               /\ e.consommation = ConsoVers(k, e.site)
               /\ e.carburant = a.carburant - e.consommation
               /\ e.charge = a.charge - graphe.quantite_par_site
      /\ LET fin == Len(retour.pas) + 1
         IN  AvantPas(fin).restants = {} \/ Candidats(fin) = {}

\* C20 witness: a walk of two moves whose first move had two candidates at
\* the same distance from the depot and a second whose stop was the only
\* one left
C20_Temoin ==
    /\ EstAppel("glouton_plus_proche")
    /\ Len(retour.pas) = 2
    /\ Candidats(1) = {1, 2}
    /\ distance_ajustee(0, 1) = distance_ajustee(0, 2)
    /\ retour.pas[1].site = 1
    /\ Candidats(2) = {2}

\* what the call thread f made returns when nothing else runs
RenduSeul(f) ==
    IF retour[f].appel = "calculer_cout_tournee"
    THEN LET r == calculer_cout_tournee(retour[f].arg)
         IN  <<None, r.cout, r.valide, r.raison, r.exception>>
    ELSE IF retour[f].appel = "force_brute"
    THEN <<force_brute.tournee, force_brute.cout, FALSE, "", "">>
    ELSE LET w == marche_gloutonne
             r == calculer_cout_tournee(w.tournee)
         IN  IF w.impasse THEN <<None, Inf, FALSE, "", "">>
             ELSE <<w.tournee, r.cout, r.valide, r.raison, r.exception>>

\* thread f ran a solver to its end
SolveurRendu(f) ==
    /\ retour[f].pc = "rendu"
    /\ retour[f].appel \in {"force_brute", "glouton_plus_proche"}

\* both calls have returned and the stored pair is whole: the pair of one
\* of the solver runs, or the pair of the constructor
PaireEntiere ==
    \/ \E f \in Fils : /\ SolveurRendu(f)
                       /\ meilleure_tournee = retour[f].tournee
                       /\ meilleur_cout = retour[f].cout
    \/ /\ meilleure_tournee = None
       /\ meilleur_cout = Inf

\* C18: under every interleaving of two calls (force_brute,
\* glouton_plus_proche, calculer_cout_tournee) made by two threads on the
\* same solver, every call returns what it returns when run alone, no step
\* changes the network or the vehicle, and once both calls have returned,
\* the stored (meilleure_tournee, meilleur_cout) is the pair one of the two
\* runs returned, never the tour of one with the cost of the other
C18_AppelsConcurrents ==
    /\ [](\A f \in Fils :
            retour[f].pc = "rendu" =>
              <<retour[f].tournee, retour[f].cout, retour[f].valide,
                retour[f].raison, retour[f].exception>> = RenduSeul(f))
    /\ []((\A f \in Fils : retour[f].pc = "rendu") => PaireEntiere)
    /\ [][graphe' = graphe /\ camion' = camion]_vars

\* the fitness evaluer_fitness gives to the tour t
FitnessDe(t) == evaluer_fitness(t).fitness

\* the number of individuals of the population fitter than the tour t
NombreMeilleurs(population, t) ==
    Cardinality({j \in 1..Len(population) :
                   fitness_superieur(FitnessDe(population[j]), FitnessDe(t))})

\* the first nb individuals of suivante are individuals of population, at
\* distinct positions, the i-th with fewer than i individuals fitter than it
ElitesReconduites(population, suivante, nb) ==
    \E pos \in [1..nb -> 1..Len(population)] :
      /\ \A i, j \in 1..nb : i # j => pos[i] # pos[j]
      /\ \A i \in 1..nb :
           /\ suivante[i] = population[pos[i]]
           /\ NombreMeilleurs(population, suivante[i]) < i

\* C21: each time algorithme_genetique replaces generation g by generation
\* g+1, the first int(taille_population x taux_elitisme) individuals of
\* g+1 are the fittest individuals of g, stop for stop, and when there is
\* one or more of them the best valid cost of g+1 is no worse than that
\* of g
C21_ElitesConservees ==
    [][(ag'.generation = ag.generation + 1) =>
         /\ Len(ag'.population) >= ag.nb_elite
         /\ ElitesReconduites(ag.population, ag'.population, ag.nb_elite)
         /\ ag.nb_elite >= 1 =>
              Le(MeilleurCoutValide(ag'.population),
                 MeilleurCoutValide(ag.population))]_vars

\* C21 witness: two generations were replaced with one elite and two
\* children each; the elite at the head is valid and a child of the
\* present generation is not
C21_Temoin ==
    /\ ag.pc = "evaluer"
    /\ ag.generation = 2
    /\ ag.nb_elite = 1
    /\ Len(ag.population) = 3
    /\ calculer_cout_tournee(ag.population[1]).valide
    /\ \E k \in 2..3 : ~calculer_cout_tournee(ag.population[k]).valide

\* the index (from 1) at which the sequence s holds x
PositionDans(s, x) == CHOOSE k \in 1..Len(s) : s[k] = x

\* C22: croiser called on two depot-wrapped permutations of the stops 1..n,
\* n >= 1, returns (raises nothing) a depot-wrapped permutation of 1..n
\* whose slice positions hold parent1's stops at the same positions and
\* whose other stops, read from left to right, come in the order they
\* have in parent2
C22_CroisementOrdonne ==
    EstAppel("croiser") =>
      /\ retour.exception = ""
      /\ EstTourneeComplete(retour.valeur)
      /\ LET enfant == Interieur(retour.valeur)
             p1 == Interieur(retour.arg.parent1)
             p2 == Interieur(retour.arg.parent2)
             segment == (retour.arg.debut + 1)..retour.arg.fin
             reste == (1..Len(enfant)) \ segment
         IN  /\ \A k \in segment : enfant[k] = p1[k]
             /\ \A i, j \in reste :
                  i < j => PositionDans(p2, enfant[i]) < PositionDans(p2, enfant[j])

\* the tour t with the stops at positions i..j (from 1) in reverse order
Renverser(t, i, j) ==
    [k \in 1..Len(t) |-> IF i <= k /\ k <= j THEN t[i + j - k] ELSE t[k]]

\* the tours obtained from t by reversing one segment of non-depot positions
Renversements(t) ==
    {Renverser(t, i, j) : i \in 2..(Len(t) - 1), j \in 2..(Len(t) - 1)}

\* C23: amelioration_locale on a valid tour returns a valid tour over the
\* same stops that costs no more than the input, and no reversal of one
\* segment of the input's non-depot positions is valid and strictly
\* cheaper than the returned tour; on an invalid tour it returns a tour
\* equal to the input
C23_AmeliorationLocale ==
    EstAppel("amelioration_locale") =>
      LET entree == calculer_cout_tournee(retour.arg)
          sortie == calculer_cout_tournee(retour.valeur)
      IN  /\ retour.exception = ""
          /\ ~entree.valide => retour.valeur = retour.arg
          /\ entree.valide =>
               /\ sortie.valide
               /\ EstTourneeComplete(retour.valeur)
               /\ sortie.cout <= entree.cout
               /\ \A t \in Renversements(retour.arg) :
                    ~(/\ calculer_cout_tournee(t).valide
                      /\ calculer_cout_tournee(t).cout < sortie.cout)

\* C23 witness: the returned tour is strictly cheaper than the valid input,
\* and another reversal of the input is valid, cheaper than the input and
\* dearer than the returned tour
C23_Temoin ==
    /\ EstAppel("amelioration_locale")
    /\ calculer_cout_tournee(retour.arg).valide
    /\ calculer_cout_tournee(retour.valeur).cout
         < calculer_cout_tournee(retour.arg).cout
    /\ \E t \in Renversements(retour.arg) :
         /\ calculer_cout_tournee(t).valide
         /\ calculer_cout_tournee(t).cout < calculer_cout_tournee(retour.arg).cout
         /\ calculer_cout_tournee(t).cout > calculer_cout_tournee(retour.valeur).cout

\* t visits the stops of the tour origine by increasing adjusted distance
\* from the depot, stops at the same distance in the order of origine
EstTrieParDistance(t, origine) ==
    /\ Len(t) = Len(origine)
    /\ t[1] = 0
    /\ t[Len(t)] = 0
    /\ Elements(Interieur(t)) = Elements(Interieur(origine))
    /\ \A k \in 2..(Len(t) - 2) :
         \/ distance_ajustee(0, t[k]) < distance_ajustee(0, t[k + 1])
         \/ /\ distance_ajustee(0, t[k]) = distance_ajustee(0, t[k + 1])
            /\ PositionDans(origine, t[k]) < PositionDans(origine, t[k + 1])

\* C24: reparer_individu returns a valid input as it is; for an invalid
\* input it returns the tour over the same stops by increasing adjusted
\* distance from the depot exactly when that tour is valid, and the
\* input otherwise; the result has the stops of the input and is valid
\* whenever it differs from the input
C24_ReparationAuMieux ==
    EstAppel("reparer_individu") =>
      LET entree == retour.arg
          sortie == retour.valeur
          tries == {t \in Individus : EstTrieParDistance(t, entree)}
      IN  /\ retour.exception = ""
          /\ Cardinality(tries) = 1
          /\ calculer_cout_tournee(entree).valide => sortie = entree
          /\ ~calculer_cout_tournee(entree).valide =>
               \A t \in tries :
                 sortie = IF calculer_cout_tournee(t).valide THEN t ELSE entree
          /\ Elements(Interieur(sortie)) = Elements(Interieur(entree))
          /\ sortie # entree => calculer_cout_tournee(sortie).valide

\* C24 witness: an invalid tour of three stops, two of them at the same
\* distance from the depot, is repaired into a different, valid tour
C24_Temoin ==
    /\ EstAppel("reparer_individu")
    /\ graphe.n_sites = 3
    /\ ~calculer_cout_tournee(retour.arg).valide
    /\ retour.valeur # retour.arg
    /\ \E a, b \in 1..3 : a # b /\ distance_ajustee(0, a) = distance_ajustee(0, b)

\* the number of positions at which the sequence s holds x
Occurrences(s, x) == Cardinality({k \in 1..Len(s) : s[k] = x})

\* the tours sampled by the tournament that returned
Echantillon ==
    {retour.arg.population_evaluee[retour.arg.tirage[k]].individu :
       k \in 1..TailleTournoi}

\* C25: every entry of the evaluated population carries fitness 0 when
\* the Evaluator finds its tour invalid and 1000 / cost when valid, and
\* the evaluated population holds every individual of the population,
\* invalid ones included; the tournament over three sampled entries
\* returns a sampled tour, valid and of lowest cost among the valid
\* sampled tours when one of them is valid, and an invalid tour only
\* when all three are invalid
C25_TournoiParFitness ==
    (EstAppel("selectionner_parents") /\ retour.exception = "") =>
      LET evaluee == retour.arg.population_evaluee
          valides == {t \in Echantillon : calculer_cout_tournee(t).valide}
      IN  /\ Len(evaluee) = Len(retour.arg.population)
          /\ \A t \in Individus :
               Occurrences([k \in 1..Len(evaluee) |-> evaluee[k].individu], t)
                 = Occurrences(retour.arg.population, t)
          /\ \A k \in 1..Len(evaluee) :
               LET r == calculer_cout_tournee(evaluee[k].individu)
               IN  /\ evaluee[k].valide = r.valide
                   /\ evaluee[k].cout = r.cout
                   /\ evaluee[k].fitness =
                        IF r.valide THEN [nul |-> FALSE, diviseur |-> r.cout]
                        ELSE [nul |-> TRUE, diviseur |-> 1]
          /\ retour.valeur \in Echantillon
          /\ valides # {} =>
               /\ retour.valeur \in valides
               /\ \A t \in valides :
                    calculer_cout_tournee(retour.valeur).cout
                      <= calculer_cout_tournee(t).cout
          /\ ~calculer_cout_tournee(retour.valeur).valide => valides = {}

\* C25 witness: the sample holds an invalid tour and two valid tours of
\* different costs, and the cheaper valid one, not the first of the
\* sample, is returned
C25_Temoin ==
    /\ EstAppel("selectionner_parents")
    /\ retour.exception = ""
    /\ \E t \in Echantillon : ~calculer_cout_tournee(t).valide
    /\ \E t \in Echantillon :
         /\ calculer_cout_tournee(t).valide
         /\ calculer_cout_tournee(t).cout
              > calculer_cout_tournee(retour.valeur).cout
    /\ calculer_cout_tournee(retour.valeur).valide
    /\ retour.valeur
         # retour.arg.population_evaluee[retour.arg.tirage[1]].individu

\* the load a run starts with
ChargeDepart == graphe.n_sites * graphe.quantite_par_site

\* a load the truck can carry
ChargeAdmise(charge) == 0 <= charge /\ charge <= camion.charge_max

C27_ChampsSuiventRetour ==
    (/\ retour.appel \in {"force_brute", "glouton_plus_proche",
                          "algorithme_genetique"}
     /\ retour.exception = "")
      => /\ meilleure_tournee = retour.tournee
         /\ meilleur_cout = retour.cout

\* C28: with two stops or more, a population size of three or more and an
\* elitism rate within 0..1, the population at the start of every
\* generation of algorithme_genetique holds exactly taille_population
\* individuals, each a list of n + 2 sites with the depot at both ends and
\* every stop 1..n once in between; so do the individuals of the
\* generation being built
C28_PopulationBienFormee ==
    (/\ graphe.n_sites >= 2
     /\ ag.taille_population >= 3
     /\ ag.pc \in {"evaluer", "reproduire"})
      => /\ Len(ag.population) = ag.taille_population
         /\ \A i \in 1..Len(ag.population) : EstTourneeComplete(ag.population[i])
         /\ Len(ag.nouvelle_population) < ag.taille_population
         /\ \A i \in 1..Len(ag.nouvelle_population) :
              EstTourneeComplete(ag.nouvelle_population[i])

\* C28 witness: the third generation starts with a population of three
\* children, made by crossover and mutation alone, that holds both
\* orderings of two stops
C28_Temoin ==
    /\ graphe.n_sites = 2
    /\ ag.pc = "evaluer"
    /\ ag.generation = 2
    /\ ag.taille_population = 3
    /\ ag.nb_elite = 0
    /\ ag.taux_mutation = 100
    /\ \E i, j \in 1..3 : ag.population[i] # ag.population[j]

\* the rates of the call are the defaults of algorithme_genetique
\* (taux_mutation = 0.1, taux_elitisme = 0.2), there is a generation to
\* run and the population is large enough for a tournament of three
AGParDefaut ==
    /\ ag.nb_generations >= 1
    /\ ag.taux_mutation = 10
    /\ ag.nb_elite = (ag.taille_population * 20) \div 100
    /\ ag.taille_population >= TailleTournoi

\* C29: on every accepted instance with one stop or more,
\* algorithme_genetique called with its default rates runs its generations
\* to completion and returns without raising: no empty index range in
\* croiser or muter, no tournament larger than the population, no division
\* by zero in the fitness
C29_AGSansException ==
    (/\ EstAppel("algorithme_genetique")
     /\ graphe.n_sites >= 1
     /\ AGParDefaut)
      => retour.exception = ""

\* C30: when glouton_plus_proche returns a tour on the instance and
\* algorithme_genetique, run on it with nb_generations >= 1, returns, the
\* cost it returns is at most the greedy cost: the greedy tour opens the
\* population that generation 0 evaluates, and the best kept never gets
\* worse
C30_AGAuMoinsGlouton ==
    /\ (/\ ag.pc \in {"semer", "evaluer", "reproduire"}
        /\ ag.generation = 0
        /\ GloutonRendrait.tournee # None)
         => /\ Len(ag.population) >= 1
            /\ ag.population[1] = GloutonRendrait.tournee
    /\ (/\ GloutonRendrait.tournee # None
        /\ ag.generation >= 1)
         => Le(ag.meilleur_cout_global, GloutonRendrait.cout)
    /\ (/\ AGRendu
        /\ ag.nb_generations >= 1
        /\ GloutonRendrait.tournee # None)
         => Le(retour.cout, GloutonRendrait.cout)

\* C30 witness: a run of two generations returned the greedy cost although
\* the population of its last generation had lost the greedy tour and its
\* best individual cost more
C30_Temoin ==
    /\ AGRendu
    /\ ag.nb_generations = 2
    /\ GloutonRendrait.tournee # None
    /\ \A i \in 1..Len(ag.population) : ag.population[i] # GloutonRendrait.tournee
    /\ ag.meilleur_generation.valide
    /\ ag.meilleur_generation.cout > GloutonRendrait.cout
    /\ retour.cout = GloutonRendrait.cout

====
